---- MODULE Spec2Model ----
(***************************************************************************)
(* Model of the dd_merge diff engine (crates/dd_git/src/diff):             *)
(*   parse.rs   parse_unified_diff and its helpers, one step per input     *)
(*              line consumed from the peekable line iterator;             *)
(*   inline.rs  compute_inline_changes, word_diff, byte_range_in;          *)
(*   split.rs   split_hunk_lines;                                          *)
(*   parse.rs   diff_commit, one step per git invocation;                  *)
(* and of the tab list of the application state (crates/dd_core/src/       *)
(* state.rs): AppState and its operations.                                 *)
(* Text is a sequence of lines, a line a sequence of one-character         *)
(* strings.  Option<T> is a sequence of length at most one.                *)
(***************************************************************************)
EXTENDS Integers, Sequences, FiniteSets, TLC

VARIABLES input, build, pc, pos, files, cur, hunk, old_line, new_line,
          inline_runs, rows,
          oid, invocations, error,
          repos, active_tab, op,
          repo_views, bar_tabs, app_error_message,
          diffs, commit_info, signature_status, error_message, mode,
          width, notified, frames, drawn

vars == <<input, build, pc, pos, files, cur, hunk, old_line, new_line,
          inline_runs, rows, oid, invocations, error, repos, active_tab, op,
          repo_views, bar_tabs, app_error_message,
          diffs, commit_info, signature_status, error_message, mode,
          width, notified, frames, drawn>>

\* the state of the diff pipeline after the text to parse is fixed
diff == <<build, pos, files, cur, hunk, old_line, new_line, inline_runs, rows>>

\* the state of a diff_commit request
request == <<oid, invocations, error>>

\* the AppState, with the last operation called on it
app == <<repos, active_tab, op>>

\* the rest of an AppView: its repo views, the tabs of its TabBar and its
\* error message
app_view == <<repo_views, bar_tabs, app_error_message>>

\* a DiffView; width is the width its parent panel gives it, notified
\* whether a cx.notify() awaits its render, frames the number of times the
\* canvas has measured that width, drawn what the last render drew
diff_view == <<diffs, commit_info, signature_status, error_message, mode,
               width, notified, frames, drawn>>

ui == <<app_view, diff_view>>

(* ------------------------------ bounds -------------------------------- *)

\* longest input drawn from HeaderCatalog
MaxLines == 3
\* longest hunk body drawn from DiffCatalog
MaxBody == 4
\* longest hunk body drawn from ClassCatalog
MaxClassBody == 2
\* the largest value of the unsigned line counters (u32::MAX scaled down)
U32Max == 7
\* how often the caller may run compute_inline_changes on one parse result
MaxInlineRuns == 2
\* most extended-header lines of a file block drawn from ExtCatalog
MaxExt == 2
\* longest commit identifier drawn from OidChars
MaxOid == 2
\* most repos in a saved session
MaxSession == 2
\* most frames counted at one width
MaxFrames == 2
\* most repos open at a time
MaxRepos == 3

(* --------------------------- Option and text --------------------------- *)

None == <<>>
Some(v) == <<v>>
IsSome(o) == o # <<>>
UnwrapOr(o, d) == IF o = <<>> THEN d ELSE o[1]

Min(a, b) == IF a <= b THEN a ELSE b
Max(a, b) == IF a >= b THEN a ELSE b

\* "W" stands for a character whose UTF-8 encoding takes two bytes
ByteLen(c) == IF c = "W" THEN 2 ELSE 1

RECURSIVE ByteLength(_)
ByteLength(s) == IF s = <<>> THEN 0 ELSE ByteLen(Head(s)) + ByteLength(Tail(s))

IsWhitespace(c) == c = " "

StartsWith(s, p) == Len(s) >= Len(p) /\ SubSeq(s, 1, Len(p)) = p

\* str::strip_prefix: Some(rest) when s starts with p
StripPrefix(s, p) ==
    IF StartsWith(s, p) THEN Some(SubSeq(s, Len(p) + 1, Len(s))) ELSE None

\* index of the first occurrence of character c in s, 0 when absent
RECURSIVE FindChar(_, _, _)
FindChar(s, c, i) ==
    IF i > Len(s) THEN 0
    ELSE IF s[i] = c THEN i ELSE FindChar(s, c, i + 1)

\* str::splitn(n, sep): at most n parts, the last one holds the remainder
RECURSIVE SplitN(_, _, _)
SplitN(s, n, sep) ==
    LET k == FindChar(s, sep, 1) IN
    IF n <= 1 \/ k = 0 THEN <<s>>
    ELSE <<SubSeq(s, 1, k - 1)>> \o SplitN(SubSeq(s, k + 1, Len(s)), n - 1, sep)

\* str::split(sep): every part, empty ones included
Split(s, sep) == SplitN(s, Len(s) + 1, sep)

\* str::trim
RECURSIVE TrimStart(_)
TrimStart(s) ==
    IF s # <<>> /\ IsWhitespace(Head(s)) THEN TrimStart(Tail(s)) ELSE s

RECURSIVE TrimEnd(_)
TrimEnd(s) ==
    IF s # <<>> /\ IsWhitespace(s[Len(s)])
    THEN TrimEnd(SubSeq(s, 1, Len(s) - 1)) ELSE s

Trim(s) == TrimEnd(TrimStart(s))

\* length of the longest prefix of s whose characters all have whitespace-ness w
RECURSIVE RunLen(_, _)
RunLen(s, w) ==
    IF s = <<>> \/ IsWhitespace(Head(s)) # w THEN 0
    ELSE 1 + RunLen(Tail(s), w)

\* str::split_whitespace: the maximal runs of non-whitespace characters
RECURSIVE SplitWhitespace(_)
SplitWhitespace(s) ==
    IF s = <<>> THEN <<>>
    ELSE IF IsWhitespace(Head(s))
         THEN SplitWhitespace(SubSeq(s, RunLen(s, TRUE) + 1, Len(s)))
         ELSE LET n == RunLen(s, FALSE) IN
              <<SubSeq(s, 1, n)>> \o SplitWhitespace(SubSeq(s, n + 1, Len(s)))

Digits == <<"0", "1", "2", "3", "4", "5", "6", "7", "8", "9">>
IsDigit(c) == \E d \in 1..10 : Digits[d] = c
DigitVal(c) == (CHOOSE d \in 1..10 : Digits[d] = c) - 1

\* value of a digit string, cut off at U32Max + 1 once it no longer fits
RECURSIVE DecValue(_, _)
DecValue(s, acc) ==
    IF s = <<>> THEN acc
    ELSE LET v == acc * 10 + DigitVal(Head(s)) IN
         IF v > U32Max THEN U32Max + 1 ELSE DecValue(Tail(s), v)

\* str::parse::<u32>: an optional '+', then one or more digits, value in range
ParseU32(s) ==
    LET body == IF s # <<>> /\ Head(s) = "+" THEN Tail(s) ELSE s IN
    IF body = <<>> \/ \E i \in 1..Len(body) : ~IsDigit(body[i]) THEN None
    ELSE IF DecValue(body, 0) > U32Max THEN None
    ELSE Some(DecValue(body, 0))

\* decimal digits of n
RECURSIVE Dec(_)
Dec(n) == IF n < 10 THEN <<Digits[n + 1]>> ELSE Dec(n \div 10) \o <<Digits[(n % 10) + 1]>>

(* ------------------------------ parse.rs ------------------------------- *)

DiffGit == <<"d", "i", "f", "f", " ", "-", "-", "g", "i", "t">>
AtAt == <<"@", "@">>
Dashes == <<"-", "-", "-">>
Pluses == <<"+", "+", "+">>
NewFile == <<"n", "e", "w", " ", "f", "i", "l", "e">>
DeletedFile == <<"d", "e", "l", "e", "t", "e", "d", " ", "f", "i", "l", "e">>
RenameFrom == <<"r", "e", "n", "a", "m", "e", " ", "f", "r", "o", "m", " ">>
RenameTo == <<"r", "e", "n", "a", "m", "e", " ", "t", "o">>
Unknown == <<"u", "n", "k", "n", "o", "w", "n">>

parse_diff_header(line) ==
    LET parts == SplitN(line, 4, " ") IN
    IF Len(parts) >= 4
    THEN UnwrapOr(StripPrefix(parts[4], <<"b", "/">>), parts[4])
    ELSE Unknown

\* parse_range that gives a range with no ",count" part the count 0
parse_range_no_default(range) ==
    LET parts == Split(range, ",") IN
    <<UnwrapOr(ParseU32(parts[1]), 0),
      IF Len(parts) > 1 THEN UnwrapOr(ParseU32(parts[2]), 0) ELSE 0>>

parse_range(range) ==
    LET parts == Split(range, ",") IN
    <<UnwrapOr(ParseU32(parts[1]), 0),
      IF Len(parts) > 1 THEN UnwrapOr(ParseU32(parts[2]), 0) ELSE 1>>

parse_hunk_header(header) ==
    LET parts == SplitWhitespace(Trim(header)) IN
    IF Len(parts) < 3 THEN <<0, 0, 0, 0>>
    ELSE LET old == UnwrapOr(StripPrefix(parts[2], <<"-">>), parts[2])
             new == UnwrapOr(StripPrefix(parts[3], <<"+">>), parts[3])
         IN  parse_range(old) \o parse_range(new)

DiffLine(origin, content, old_no, new_no) ==
    [origin |-> origin, content |-> content, old_line_no |-> old_no,
     new_line_no |-> new_no, change_spans |-> <<>>]

\* the iterator's peek(): the next line, None at the end of the input
Peek == IF pos <= Len(input) THEN Some(input[pos]) ELSE None

\* x += 1 on a u32 that holds U32Max: a panic when the build checks
\* overflow (debug profile), a wrap to 0 when it does not (release profile)
Overflows(x) == x = U32Max
Incr(x) == (x + 1) % (U32Max + 1)

Panic ==
    /\ pc' = "panic"
    /\ UNCHANGED <<request, app, ui, input, build, pos, files, cur, hunk, old_line, new_line,
                   inline_runs, rows>>

\* parse_unified_diff, outer loop: a line that is not a file header
ScanSkip ==
    /\ pc = "scan"
    /\ IsSome(Peek)
    /\ ~StartsWith(Peek[1], DiffGit)
    /\ pos' = pos + 1
    /\ UNCHANGED <<request, app, ui, input, build, pc, files, cur, hunk, old_line, new_line,
                   inline_runs, rows>>

\* parse_unified_diff, outer loop: the "diff --git" line
FileHeader ==
    /\ pc = "scan"
    /\ IsSome(Peek)
    /\ StartsWith(Peek[1], DiffGit)
    /\ cur' = [path |-> parse_diff_header(Peek[1]), old_path |-> None,
               status |-> "Modified", hunks |-> <<>>]
    /\ pos' = pos + 1
    /\ pc' = "ext"
    /\ UNCHANGED <<request, app, ui, input, build, files, hunk, old_line, new_line,
                   inline_runs, rows>>

ExtBreak(line) ==
    StartsWith(line, Dashes) \/ StartsWith(line, DiffGit) \/ StartsWith(line, AtAt)

\* the extended-header loop: one header line
ExtHeaderLine ==
    /\ pc = "ext"
    /\ IsSome(Peek)
    /\ ~ExtBreak(Peek[1])
    /\ LET header_line == Peek[1] IN
       cur' = IF StartsWith(header_line, NewFile)
                  THEN [cur EXCEPT !.status = "Added"]
              ELSE IF StartsWith(header_line, DeletedFile)
                  THEN [cur EXCEPT !.status = "Deleted"]
              ELSE IF IsSome(StripPrefix(header_line, RenameFrom))
                  THEN [cur EXCEPT !.status = "Renamed",
                                   !.old_path = StripPrefix(header_line, RenameFrom)]
              ELSE IF StartsWith(header_line, RenameTo)
                  THEN [cur EXCEPT !.status = "Renamed"]
              ELSE cur
    /\ pos' = pos + 1
    /\ UNCHANGED <<request, app, ui, input, build, pc, files, hunk, old_line, new_line,
                   inline_runs, rows>>

\* the end of the extended-header loop, then the two optional skips of the
\* "---" and "+++" lines
ExtEnd ==
    /\ pc = "ext"
    /\ IF IsSome(Peek) THEN ExtBreak(Peek[1]) ELSE TRUE
    /\ LET p1 == IF IsSome(Peek) /\ StartsWith(Peek[1], Dashes) THEN pos + 1 ELSE pos
           p2 == IF p1 <= Len(input) /\ StartsWith(input[p1], Pluses) THEN p1 + 1 ELSE p1
       IN  pos' = p2
    /\ pc' = "hunks"
    /\ UNCHANGED <<request, app, ui, input, build, files, cur, hunk, old_line, new_line,
                   inline_runs, rows>>

\* the hunk loop: a line that starts neither a hunk nor a file
HunkLoopSkip ==
    /\ pc = "hunks"
    /\ IsSome(Peek)
    /\ ~StartsWith(Peek[1], DiffGit)
    /\ ~StartsWith(Peek[1], AtAt)
    /\ pos' = pos + 1
    /\ UNCHANGED <<request, app, ui, input, build, pc, files, cur, hunk, old_line, new_line,
                   inline_runs, rows>>

\* parse_hunk, up to its loop: the "@@" line
HunkStart ==
    /\ pc = "hunks"
    /\ IsSome(Peek)
    /\ ~StartsWith(Peek[1], DiffGit)
    /\ StartsWith(Peek[1], AtAt)
    /\ LET h == parse_hunk_header(Peek[1]) IN
       /\ hunk' = [header |-> Peek[1], old_start |-> h[1], old_count |-> h[2],
                   new_start |-> h[3], new_count |-> h[4], lines |-> <<>>]
       /\ old_line' = h[1]
       /\ new_line' = h[3]
    /\ pos' = pos + 1
    /\ pc' = "body"
    /\ UNCHANGED <<request, app, ui, input, build, files, cur, inline_runs, rows>>

\* FilePush that pushes only a file that has hunks
FilePushIfHunks ==
    /\ pc = "hunks"
    /\ IF IsSome(Peek) THEN StartsWith(Peek[1], DiffGit) ELSE TRUE
    /\ files' = IF cur.hunks = <<>> THEN files ELSE Append(files, cur)
    /\ pc' = "scan"
    /\ UNCHANGED <<request, app, ui, input, build, pos, cur, hunk, old_line, new_line,
                   inline_runs, rows>>

\* the end of the hunk loop: files.push(FileDiff { .. })
FilePush ==
    /\ pc = "hunks"
    /\ IF IsSome(Peek) THEN StartsWith(Peek[1], DiffGit) ELSE TRUE
    /\ files' = Append(files, cur)
    /\ pc' = "scan"
    /\ UNCHANGED <<request, app, ui, input, build, pos, cur, hunk, old_line, new_line,
                   inline_runs, rows>>

BodyBreak(line) == StartsWith(line, AtAt) \/ StartsWith(line, DiffGit)

InBody == pc = "body" /\ IsSome(Peek) /\ ~BodyBreak(Peek[1])

\* Emit that puts the new line in front of the lines pushed so far
EmitInFront(l) == hunk' = [hunk EXCEPT !.lines = <<l>> \o @]

Emit(l) == hunk' = [hunk EXCEPT !.lines = Append(@, l)]

\* parse_hunk: a '+' line
BodyAddition ==
    /\ InBody
    /\ IsSome(StripPrefix(Peek[1], <<"+">>))
    /\ IF Overflows(new_line) /\ build = "debug" THEN Panic
       ELSE /\ Emit(DiffLine("Addition", StripPrefix(Peek[1], <<"+">>)[1],
                             None, Some(new_line)))
            /\ new_line' = Incr(new_line)
            /\ pos' = pos + 1
            /\ UNCHANGED <<request, app, ui, input, build, pc, files, cur, old_line,
                           inline_runs, rows>>

\* parse_hunk: a '-' line
BodyDeletion ==
    /\ InBody
    /\ ~IsSome(StripPrefix(Peek[1], <<"+">>))
    /\ IsSome(StripPrefix(Peek[1], <<"-">>))
    /\ IF Overflows(old_line) /\ build = "debug" THEN Panic
       ELSE /\ Emit(DiffLine("Deletion", StripPrefix(Peek[1], <<"-">>)[1],
                             Some(old_line), None))
            /\ old_line' = Incr(old_line)
            /\ pos' = pos + 1
            /\ UNCHANGED <<request, app, ui, input, build, pc, files, cur, new_line,
                           inline_runs, rows>>

ContextStep(content) ==
    IF (Overflows(old_line) \/ Overflows(new_line)) /\ build = "debug" THEN Panic
    ELSE /\ Emit(DiffLine("Context", content, Some(old_line), Some(new_line)))
         /\ old_line' = Incr(old_line)
         /\ new_line' = Incr(new_line)
         /\ pos' = pos + 1
         /\ UNCHANGED <<request, app, ui, input, build, pc, files, cur, inline_runs, rows>>

\* parse_hunk: a ' ' line
BodyContext ==
    /\ InBody
    /\ ~IsSome(StripPrefix(Peek[1], <<"+">>))
    /\ ~IsSome(StripPrefix(Peek[1], <<"-">>))
    /\ IsSome(StripPrefix(Peek[1], <<" ">>))
    /\ ContextStep(StripPrefix(Peek[1], <<" ">>)[1])

\* parse_hunk: a '\' line ("\ No newline at end of file")
BodyNoNewline ==
    /\ InBody
    /\ StartsWith(Peek[1], <<"\\">>)
    /\ pos' = pos + 1
    /\ UNCHANGED <<request, app, ui, input, build, pc, files, cur, hunk, old_line, new_line,
                   inline_runs, rows>>

\* parse_hunk: any other line, the empty line included
BodyOther ==
    /\ InBody
    /\ ~IsSome(StripPrefix(Peek[1], <<"+">>))
    /\ ~IsSome(StripPrefix(Peek[1], <<"-">>))
    /\ ~IsSome(StripPrefix(Peek[1], <<" ">>))
    /\ ~StartsWith(Peek[1], <<"\\">>)
    /\ ContextStep(Peek[1])

\* parse_hunk returns; hunks.push(hunk)
HunkEnd ==
    /\ pc = "body"
    /\ IF IsSome(Peek) THEN BodyBreak(Peek[1]) ELSE TRUE
    /\ cur' = [cur EXCEPT !.hunks = Append(@, hunk)]
    /\ pc' = "hunks"
    /\ UNCHANGED <<request, app, ui, input, build, pos, files, hunk, old_line, new_line,
                   inline_runs, rows>>

\* parse_unified_diff returns Ok(files)
ParseReturn ==
    /\ pc = "scan"
    /\ ~IsSome(Peek)
    /\ pc' = "parsed"
    /\ UNCHANGED <<request, app, ui, input, build, pos, files, cur, hunk, old_line, new_line,
                   inline_runs, rows>>

(* ------------------------------ inline.rs ------------------------------ *)

\* a &str: the address of its first byte and its text
Str(ptr, text) == [ptr |-> ptr, text |-> text]

\* the tokens of similar's diff_words: the maximal runs of whitespace and of
\* non-whitespace characters, each a sub-slice of s
RECURSIVE split_words(_, _)
split_words(ptr, text) ==
    IF text = <<>> THEN <<>>
    ELSE LET n == RunLen(text, IsWhitespace(Head(text)))
             tok == SubSeq(text, 1, n)
         IN  <<Str(ptr, tok)>>
             \o split_words(ptr + ByteLength(tok), SubSeq(text, n + 1, Len(text)))

\* length of a longest common subsequence of two token lists, by text
RECURSIVE LcsLen(_, _)
LcsLen(a, b) ==
    IF a = <<>> \/ b = <<>> THEN 0
    ELSE IF Head(a).text = Head(b).text THEN 1 + LcsLen(Tail(a), Tail(b))
    ELSE Max(LcsLen(Tail(a), b), LcsLen(a, Tail(b)))

\* TextDiff::iter_all_changes: one change per token, its value the token's
\* slice of the old text (Equal, Delete) or of the new text (Insert).  The
\* tokens tagged Equal are a common subsequence of the two token lists; the
\* alignment taken here is a longest one, found from the left
RECURSIVE iter_all_changes(_, _)
iter_all_changes(a, b) ==
    IF a = <<>> THEN [i \in 1..Len(b) |-> [tag |-> "Insert", value |-> b[i]]]
    ELSE IF b = <<>> THEN [i \in 1..Len(a) |-> [tag |-> "Delete", value |-> a[i]]]
    ELSE IF Head(a).text = Head(b).text
         THEN <<[tag |-> "Equal", value |-> Head(a)]>>
              \o iter_all_changes(Tail(a), Tail(b))
    ELSE IF LcsLen(Tail(a), b) >= LcsLen(a, Tail(b))
         THEN <<[tag |-> "Delete", value |-> Head(a)]>> \o iter_all_changes(Tail(a), b)
         ELSE <<[tag |-> "Insert", value |-> Head(b)]>> \o iter_all_changes(a, Tail(b))

diff_words(old, new) ==
    iter_all_changes(split_words(old.ptr, old.text), split_words(new.ptr, new.text))

\* first byte offset at which the characters of sub occur in text, from
\* character index i on; None when they occur nowhere
RECURSIVE FindText(_, _, _)
FindText(text, sub, i) ==
    IF i + Len(sub) > Len(text) THEN None
    ELSE IF SubSeq(text, i + 1, i + Len(sub)) = sub
         THEN Some(ByteLength(SubSeq(text, 1, i)))
         ELSE FindText(text, sub, i + 1)

\* byte_range_in by a search for the segment's text
byte_range_in_search(source, substr) ==
    LET at == FindText(source.text, substr.text, 0) IN
    IF IsSome(at) THEN Some(<<at[1], at[1] + ByteLength(substr.text)>>) ELSE None

\* byte_range_in without the subtraction of the source's address
byte_range_in_absolute(source, substr) ==
    LET source_start == source.ptr
        source_end == source_start + ByteLength(source.text)
        sub_start == substr.ptr
        sub_end == sub_start + ByteLength(substr.text)
    IN  IF sub_start >= source_start /\ sub_end <= source_end
        THEN Some(<<sub_start, sub_end>>)
        ELSE None

\* the byte range of substr within source by pointer arithmetic
byte_range_in(source, substr) ==
    LET source_start == source.ptr
        source_end == source_start + ByteLength(source.text)
        sub_start == substr.ptr
        sub_end == sub_start + ByteLength(substr.text)
    IN  IF sub_start >= source_start /\ sub_end <= source_end
        THEN Some(<<sub_start - source_start,
                    (sub_start - source_start) + ByteLength(substr.text)>>)
        ELSE None

InlineSpan(range) == [start |-> range[1], end |-> range[2]]

\* the spans word_diff pushes for the changes tagged `tag`, located in source
RECURSIVE SpansFor(_, _, _)
SpansFor(changes, tag, source) ==
    IF changes = <<>> THEN <<>>
    ELSE LET range == byte_range_in(source, Head(changes).value) IN
         (IF Head(changes).tag = tag /\ IsSome(range)
          THEN <<InlineSpan(range[1])>> ELSE <<>>)
         \o SpansFor(Tail(changes), tag, source)

\* <<old_spans, new_spans>>
word_diff(old, new) ==
    <<SpansFor(diff_words(old, new), "Delete", old),
      SpansFor(diff_words(old, new), "Insert", new)>>

\* a debug_assert!(range.is_some()) of word_diff fails
word_diff_asserts(old, new) ==
    LET changes == diff_words(old, new) IN
    \E i \in 1..Len(changes) :
        \/ changes[i].tag = "Delete" /\ byte_range_in(old, changes[i].value) = None
        \/ changes[i].tag = "Insert" /\ byte_range_in(new, changes[i].value) = None

\* where the content String of line k lives: the buffers of a hunk's lines
\* lie one after the other, a byte apart
RECURSIVE ContentAddr(_, _)
ContentAddr(lines, k) ==
    IF k <= 1 THEN 1
    ELSE ContentAddr(lines, k - 1) + ByteLength(lines[k - 1].content) + 1

ContentStr(lines, k) == Str(ContentAddr(lines, k), lines[k].content)

\* the first index >= i whose line does not have the origin (len + 1 if none)
RECURSIVE RunEnd(_, _, _)
RunEnd(lines, i, origin) ==
    IF i <= Len(lines) /\ lines[i].origin = origin
    THEN RunEnd(lines, i + 1, origin) ELSE i

\* PairSpans with the two span lists stored on the wrong lines
RECURSIVE PairSpansSwapped(_, _, _, _, _)
PairSpansSwapped(lines, del_start, add_start, p, pairs) ==
    IF p >= pairs THEN lines
    ELSE LET del_idx == del_start + p
             add_idx == add_start + p
             spans == word_diff(ContentStr(lines, del_idx), ContentStr(lines, add_idx))
         IN  PairSpansSwapped([lines EXCEPT ![del_idx].change_spans = spans[2],
                                            ![add_idx].change_spans = spans[1]],
                              del_start, add_start, p + 1, pairs)

\* PairSpans that pushes the computed spans onto the spans a line already has
RECURSIVE PairSpansAppend(_, _, _, _, _)
PairSpansAppend(lines, del_start, add_start, p, pairs) ==
    IF p >= pairs THEN lines
    ELSE LET del_idx == del_start + p
             add_idx == add_start + p
             spans == word_diff(ContentStr(lines, del_idx), ContentStr(lines, add_idx))
         IN  PairSpansAppend([lines EXCEPT ![del_idx].change_spans = @ \o spans[1],
                                           ![add_idx].change_spans = @ \o spans[2]],
                             del_start, add_start, p + 1, pairs)

\* PairSpans that stores the deletion's spans at index p, without del_start
RECURSIVE PairSpansNoOffset(_, _, _, _, _)
PairSpansNoOffset(lines, del_start, add_start, p, pairs) ==
    IF p >= pairs THEN lines
    ELSE LET del_idx == del_start + p
             add_idx == add_start + p
             spans == word_diff(ContentStr(lines, del_idx), ContentStr(lines, add_idx))
         IN  PairSpansNoOffset([lines EXCEPT ![p + 1].change_spans = spans[1],
                                             ![add_idx].change_spans = spans[2]],
                               del_start, add_start, p + 1, pairs)

\* the loop `for p in 0..pairs` of compute_inline_changes, from index p on
RECURSIVE PairSpans(_, _, _, _, _)
PairSpans(lines, del_start, add_start, p, pairs) ==
    IF p >= pairs THEN lines
    ELSE LET del_idx == del_start + p
             add_idx == add_start + p
             spans == word_diff(ContentStr(lines, del_idx), ContentStr(lines, add_idx))
         IN  PairSpans([lines EXCEPT ![del_idx].change_spans = spans[1],
                                     ![add_idx].change_spans = spans[2]],
                       del_start, add_start, p + 1, pairs)

\* the pair loop run up to the longer count, a surplus line diffed against
\* the last line of the shorter run
RECURSIVE PairSpansClamped(_, _, _, _, _, _)
PairSpansClamped(lines, del_start, add_start, p, del_count, add_count) ==
    IF p >= Max(del_count, add_count) THEN lines
    ELSE LET del_idx == del_start + Min(p, del_count - 1)
             add_idx == add_start + Min(p, add_count - 1)
             spans == word_diff(ContentStr(lines, del_idx), ContentStr(lines, add_idx))
         IN  PairSpansClamped([lines EXCEPT ![del_idx].change_spans = spans[1],
                                            ![add_idx].change_spans = spans[2]],
                              del_start, add_start, p + 1, del_count, add_count)

\* InlineScan that gives the surplus lines of the longer run spans too
RECURSIVE InlineScanClamped(_, _)
InlineScanClamped(lines, i) ==
    IF i > Len(lines) THEN lines
    ELSE LET del_end == RunEnd(lines, i, "Deletion")
             add_end == RunEnd(lines, del_end, "Addition")
             del_count == del_end - i
             add_count == add_end - del_end
         IN  IF del_count = 0 \/ add_count = 0
             THEN InlineScanClamped(lines, IF del_count = 0 /\ add_count = 0
                                           THEN add_end + 1 ELSE add_end)
             ELSE InlineScanClamped(PairSpansClamped(lines, i, del_end, 0,
                                                     del_count, add_count), add_end)

\* ScanAdvance without the `i += 1` of the branch that finds no run
ScanAdvanceNoStep(lines, i) ==
    RunEnd(lines, RunEnd(lines, i, "Deletion"), "Addition")

\* the value of i after the iteration of `while i < len` that starts at i
ScanAdvance(lines, i) ==
    LET del_start == i
        del_end == RunEnd(lines, i, "Deletion")
        add_start == del_end
        add_end == RunEnd(lines, add_start, "Addition")
        del_count == del_end - del_start
        add_count == add_end - add_start
    IN  IF del_count = 0 /\ add_count = 0 THEN add_end + 1 ELSE add_end

\* the loop `while i < len` of compute_inline_changes on one hunk's lines
RECURSIVE InlineScan(_, _)
InlineScan(lines, i) ==
    IF i > Len(lines) THEN lines
    ELSE LET del_start == i
             del_end == RunEnd(lines, i, "Deletion")
             add_start == del_end
             add_end == RunEnd(lines, add_start, "Addition")
             del_count == del_end - del_start
             add_count == add_end - add_start
         IN  IF del_count = 0 \/ add_count = 0
             THEN InlineScan(lines, ScanAdvance(lines, i))
             ELSE InlineScan(PairSpans(lines, del_start, add_start, 0,
                                       Min(del_count, add_count)),
                             ScanAdvance(lines, i))

\* the lines of hunks h.. one after the other
RECURSIVE JoinedLines(_, _)
JoinedLines(hunks, h) ==
    IF h > Len(hunks) THEN <<>>
    ELSE hunks[h].lines \o JoinedLines(hunks, h + 1)

\* compute_inline_changes with one scan over the lines of all hunks, the
\* index not reset at a hunk's end
compute_inline_changes_joined(hunks) ==
    LET scanned == InlineScan(JoinedLines(hunks, 1), 1)
        total == Len(scanned)
    IN  [h \in 1..Len(hunks) |->
            LET before == total - Len(JoinedLines(hunks, h)) IN
            [hunks[h] EXCEPT !.lines =
                SubSeq(scanned, before + 1, before + Len(hunks[h].lines))]]

compute_inline_changes(hunks) ==
    [h \in 1..Len(hunks) |-> [hunks[h] EXCEPT !.lines = InlineScan(@, 1)]]

\* some pair that compute_inline_changes diffs trips a debug assertion
RECURSIVE InlineAsserts(_, _)
InlineAsserts(lines, i) ==
    IF i > Len(lines) THEN FALSE
    ELSE LET del_end == RunEnd(lines, i, "Deletion")
             add_end == RunEnd(lines, del_end, "Addition")
             del_count == del_end - i
             add_count == add_end - del_end
         IN  IF del_count = 0 \/ add_count = 0
             THEN InlineAsserts(lines, IF del_count = 0 /\ add_count = 0
                                       THEN add_end + 1 ELSE add_end)
             ELSE \/ \E p \in 0..(Min(del_count, add_count) - 1) :
                        word_diff_asserts(ContentStr(lines, i + p),
                                          ContentStr(lines, del_end + p))
                  \/ InlineAsserts(lines, add_end)

\* the pairs <<del_idx, add_idx>> that the scan of compute_inline_changes
\* hands to word_diff, from index i on
RECURSIVE DiffedPairs(_, _)
DiffedPairs(lines, i) ==
    IF i > Len(lines) THEN {}
    ELSE LET del_start == i
             del_end == RunEnd(lines, i, "Deletion")
             add_start == del_end
             add_end == RunEnd(lines, add_start, "Addition")
             del_count == del_end - del_start
             add_count == add_end - add_start
         IN  IF del_count = 0 \/ add_count = 0
             THEN DiffedPairs(lines, IF del_count = 0 /\ add_count = 0
                                     THEN add_end + 1 ELSE add_end)
             ELSE {<<del_start + p, add_start + p>> :
                      p \in 0..(Min(del_count, add_count) - 1)}
                  \cup DiffedPairs(lines, add_end)

\* the caller runs compute_inline_changes on the hunks of every parsed file
ComputeInlineChanges ==
    /\ pc = "parsed"
    /\ inline_runs < MaxInlineRuns
    /\ IF build = "debug"
          /\ \E f \in 1..Len(files) : \E h \in 1..Len(files[f].hunks) :
                InlineAsserts(files[f].hunks[h].lines, 1)
       THEN Panic
       ELSE /\ files' = [f \in 1..Len(files) |->
                           [files[f] EXCEPT !.hunks = compute_inline_changes(@)]]
            /\ inline_runs' = inline_runs + 1
            /\ UNCHANGED <<request, app, ui, input, build, pc, pos, cur, hunk, old_line, new_line, rows>>

(* ------------------------------- split.rs ------------------------------ *)

SplitRow(left, right) == [left |-> left, right |-> right]

\* RunRows without the pairing: every deletion and every addition alone
RunRowsUnpaired(lines, del_start, add_start, del_count, add_count) ==
    [q \in 1..del_count |-> SplitRow(Some(lines[del_start + q - 1]), None)]
    \o [q \in 1..add_count |-> SplitRow(None, Some(lines[add_start + q - 1]))]

\* RunRows with the surplus deletions first and the pairs made of the last
\* deletions
RunRowsSurplusFirst(lines, del_start, add_start, del_count, add_count) ==
    LET pairs == Min(del_count, add_count) IN
    [q \in 1..(del_count - pairs) |->
        SplitRow(Some(lines[del_start + q - 1]), None)]
    \o [p \in 1..pairs |->
        SplitRow(Some(lines[del_start + (del_count - pairs) + p - 1]),
                 Some(lines[add_start + p - 1]))]
    \o [q \in 1..(add_count - pairs) |->
        SplitRow(None, Some(lines[add_start + pairs + q - 1]))]

\* RunRows with the p-th deletion paired with the p-th addition from the end
RunRowsCrossed(lines, del_start, add_start, del_count, add_count) ==
    LET pairs == Min(del_count, add_count) IN
    [p \in 1..pairs |->
        SplitRow(Some(lines[del_start + p - 1]), Some(lines[add_start + pairs - p]))]
    \o [q \in 1..(del_count - pairs) |->
        SplitRow(Some(lines[del_start + pairs + q - 1]), None)]
    \o [q \in 1..(add_count - pairs) |->
        SplitRow(None, Some(lines[add_start + pairs + q - 1]))]

\* RunRows with the surplus rows left out
RunRowsPairsOnly(lines, del_start, add_start, del_count, add_count) ==
    LET pairs == Min(del_count, add_count) IN
    [p \in 1..pairs |->
        SplitRow(Some(lines[del_start + p - 1]), Some(lines[add_start + p - 1]))]

\* the rows pushed for a deletion run and the addition run that follows it
RunRows(lines, del_start, add_start, del_count, add_count) ==
    LET pairs == Min(del_count, add_count) IN
    [p \in 1..pairs |->
        SplitRow(Some(lines[del_start + p - 1]), Some(lines[add_start + p - 1]))]
    \o [q \in 1..(del_count - pairs) |->
        SplitRow(Some(lines[del_start + pairs + q - 1]), None)]
    \o [q \in 1..(add_count - pairs) |->
        SplitRow(None, Some(lines[add_start + pairs + q - 1]))]

\* SplitScan that puts a standalone addition on the left side
RECURSIVE SplitScanAdditionLeft(_, _)
SplitScanAdditionLeft(lines, i) ==
    IF i > Len(lines) THEN <<>>
    ELSE IF lines[i].origin = "Context"
         THEN <<SplitRow(Some(lines[i]), Some(lines[i]))>>
              \o SplitScanAdditionLeft(lines, i + 1)
    ELSE IF lines[i].origin = "Deletion"
         THEN LET del_end == RunEnd(lines, i, "Deletion")
                  add_end == RunEnd(lines, del_end, "Addition")
              IN  RunRows(lines, i, del_end, del_end - i, add_end - del_end)
                  \o SplitScanAdditionLeft(lines, add_end)
    ELSE <<SplitRow(Some(lines[i]), None)>> \o SplitScanAdditionLeft(lines, i + 1)

\* the loop `while i < len` of split_hunk_lines
RECURSIVE SplitScan(_, _)
SplitScan(lines, i) ==
    IF i > Len(lines) THEN <<>>
    ELSE IF lines[i].origin = "Context"
         THEN <<SplitRow(Some(lines[i]), Some(lines[i]))>> \o SplitScan(lines, i + 1)
    ELSE IF lines[i].origin = "Deletion"
         THEN LET del_end == RunEnd(lines, i, "Deletion")
                  add_end == RunEnd(lines, del_end, "Addition")
              IN  RunRows(lines, i, del_end, del_end - i, add_end - del_end)
                  \o SplitScan(lines, add_end)
    ELSE <<SplitRow(None, Some(lines[i]))>> \o SplitScan(lines, i + 1)

split_hunk_lines(lines) == SplitScan(lines, 1)

\* the split view renders every hunk of every file: rows[f][h] are the rows
\* of hunk h of file f
RenderSplit ==
    /\ pc = "parsed"
    /\ rows' = [f \in 1..Len(files) |->
                  [h \in 1..Len(files[f].hunks) |->
                      split_hunk_lines(files[f].hunks[h].lines)]]
    /\ pc' = "split"
    /\ UNCHANGED <<request, app, ui, input, build, pos, files, cur, hunk, old_line, new_line,
                   inline_runs>>

(* ------------------------- parse.rs: diff_commit ----------------------- *)

\* u8::is_ascii_alphanumeric
is_ascii_alphanumeric(b) ==
    \/ IsDigit(b)
    \/ b \in {"a", "b", "c", "d", "e", "f", "g", "h", "i", "j", "k", "l", "m",
              "n", "o", "p", "q", "r", "s", "t", "u", "v", "w", "x", "y", "z"}
    \/ b \in {"A", "B", "C", "D", "E", "F", "G", "H", "I", "J", "K", "L", "M",
              "N", "O", "P", "Q", "R", "S", "T", "U", "V", "W", "X", "Y", "Z"}

\* u8::is_ascii_hexdigit
is_ascii_hexdigit(b) ==
    \/ IsDigit(b)
    \/ b \in {"a", "b", "c", "d", "e", "f"}
    \/ b \in {"A", "B", "C", "D", "E", "F"}

\* the arguments of `git diff-tree`, the root-aware variant with "--root"
DiffTreeArgs(root) ==
    <<"diff-tree", "-p", "--no-commit-id">>
    \o (IF root THEN <<"--root">> ELSE <<>>) \o <<"-M">>

\* what one run of git gives: ran is FALSE when the process could not be
\* run; code is its exit code; stdout its output, as lines
Outcome(ran, code, stdout) == [ran |-> ran, code |-> code, stdout |-> stdout]

\* success that takes every exit code for a success
success_any_code(output) == output.ran

\* ExitStatus::success of an Output
success(output) == output.code = 0

\* stdout.trim().is_empty() without the trim
is_empty(stdout) == stdout = <<>>

\* stdout.trim().is_empty(): nothing but whitespace and line ends
trim_is_empty(stdout) == \A k \in 1..Len(stdout) : Trim(stdout[k]) = <<>>

\* anyhow::ensure!, bail! and `?`: diff_commit returns Err(message)
Bail(message) ==
    /\ pc' = "failed"
    /\ error' = Some(message)

\* diff_commit: the check of the commit identifier
EnsureOid ==
    /\ pc = "diff_commit"
    /\ IF \A i \in 1..Len(oid) : is_ascii_hexdigit(oid[i])
       THEN pc' = "diff_tree" /\ UNCHANGED error
       ELSE Bail("invalid commit OID")
    /\ UNCHANGED <<app, ui, diff, input, oid, invocations>>

\* a diff that holds a line of every class the parser tells apart
FullDiff ==
    <<Unknown, DiffGit \o <<" ", "a", "/", "x", " ", "b", "/", "y">>,
      NewFile, Dashes, Pluses, Unknown,
      AtAt \o <<" ", "-", "1", " ", "+", "1", " ">> \o AtAt,
      <<"+", "a">>, <<"-", "a">>, <<" ", "a">>, <<"\\">>, <<"b">>>>

\* the diff of a root commit: one added file
RootDiff ==
    <<DiffGit \o <<" ", "a", "/", "x", " ", "b", "/", "x">>,
      NewFile,
      AtAt \o <<" ", "-", "0", ",", "0", " ", "+", "1", " ">> \o AtAt,
      <<"+", "a">>>>

\* what git may write: nothing, a blank line, a diff
Stdouts == { <<>>, <<<<" ">>>>, FullDiff, RootDiff }

\* git cannot be run, exits non-zero, or exits with 0 and some output
Outputs ==
    {Outcome(FALSE, 1, <<>>), Outcome(TRUE, 1, <<>>)}
    \cup {Outcome(TRUE, 0, text) : text \in Stdouts}

\* one run of git and what diff_commit does with its Output; a successful
\* run whose stdout is kept hands it to parse_unified_diff
Invoke(root, retry_if_blank) ==
    \E output \in Outputs :
        /\ invocations' = Append(invocations,
                                 [args |-> DiffTreeArgs(root), oid |-> oid,
                                  output |-> output])
        /\ IF ~output.ran
           THEN /\ Bail(IF root THEN "failed to run git diff-tree --root"
                        ELSE "failed to run git diff-tree")
                /\ UNCHANGED input
           ELSE IF ~success(output)
           THEN /\ Bail(IF root THEN "git diff-tree --root failed"
                        ELSE "git diff-tree failed")
                /\ UNCHANGED input
           ELSE IF retry_if_blank /\ trim_is_empty(output.stdout)
           THEN pc' = "diff_tree_root" /\ UNCHANGED <<input, error>>
           ELSE pc' = "scan" /\ input' = output.stdout /\ UNCHANGED error
        /\ UNCHANGED <<app, ui, diff, oid>>

\* diff_commit: `git diff-tree -p --no-commit-id -M <oid>`
GitDiffTree == pc = "diff_tree" /\ Invoke(FALSE, TRUE)

\* diff_commit: `git diff-tree -p --no-commit-id --root -M <oid>`
GitDiffTreeRoot == pc = "diff_tree_root" /\ Invoke(TRUE, FALSE)

(* ------------------------------- state.rs ------------------------------ *)

\* Path::file_name: the last component; None for a path that has none
file_name(path) == IF path = <<>> THEN None ELSE Some(path[Len(path)])

RepoTab(path) == [path |-> path, name |-> UnwrapOr(file_name(path), "unknown")]

AppState(tabs, active) == [repos |-> tabs, active_tab |-> active]

\* Vec::get, Vec::remove, Vec::insert and Iterator::position, indices from 0
Get(v, i) == IF i < Len(v) THEN Some(v[i + 1]) ELSE None
Remove(v, i) == SubSeq(v, 1, i) \o SubSeq(v, i + 2, Len(v))
Insert(v, i, x) == SubSeq(v, 1, i) \o <<x>> \o SubSeq(v, i + 1, Len(v))
Position(v, path) ==
    IF \E k \in 1..Len(v) : v[k].path = path
    THEN Some((CHOOSE k \in 1..Len(v) :
                  /\ v[k].path = path
                  /\ \A j \in 1..(k - 1) : v[j].path # path) - 1)
    ELSE None

add_repo(self, path) ==
    LET tabs == Append(self.repos, RepoTab(path)) IN
    AppState(tabs, Len(tabs) - 1)

\* reorder_repos that moves the repo and leaves active_tab as it is
reorder_repos_keep_index(self, from, to) ==
    LET len == Len(self.repos) IN
    IF from = to \/ from >= len \/ to >= len THEN self
    ELSE AppState(Insert(Remove(self.repos, from), to, self.repos[from + 1]),
                  self.active_tab)

reorder_repos(self, from, to) ==
    LET len == Len(self.repos) IN
    IF from = to \/ from >= len \/ to >= len THEN self
    ELSE LET active == Get(self.repos, self.active_tab)
             tabs == Insert(Remove(self.repos, from), to, self.repos[from + 1])
             position == IF IsSome(active) THEN Position(tabs, active[1].path) ELSE None
         IN  AppState(tabs, IF IsSome(position) THEN position[1] ELSE self.active_tab)

remove_repo(self, index) ==
    IF index < Len(self.repos)
    THEN LET tabs == Remove(self.repos, index) IN
         AppState(tabs, IF tabs = <<>> THEN 0
                        ELSE IF self.active_tab >= Len(tabs) THEN Len(tabs) - 1
                        ELSE self.active_tab)
    ELSE self

\* the paths of the repos a user may open; the last one has no file name
RepoPaths == { <<"r", "a">>, <<"r", "b">>, <<>> }

Call(name, args) == [name |-> name, args |-> args]

\* the state after a call of a method of AppState
Becomes(self, call) ==
    /\ repos' = self.repos
    /\ active_tab' = self.active_tab
    /\ op' = call
    /\ UNCHANGED <<request, diff, ui, input, pc>>

AddRepo ==
    /\ pc = "app"
    /\ Len(repos) < MaxRepos
    /\ \E path \in RepoPaths :
          Becomes(add_repo(AppState(repos, active_tab), path), Call("add_repo", <<path>>))

ReorderRepos ==
    /\ pc = "app"
    /\ \E from \in 0..MaxRepos : \E to \in 0..MaxRepos :
          Becomes(reorder_repos(AppState(repos, active_tab), from, to),
                  Call("reorder_repos", <<from, to>>))

RemoveRepo ==
    /\ pc = "app"
    /\ \E index \in 0..MaxRepos :
          Becomes(remove_repo(AppState(repos, active_tab), index),
                  Call("remove_repo", <<index>>))

\* AppView::set_active_tab: the user selects a tab
SetActiveTab ==
    /\ pc = "app"
    /\ \E index \in 0..MaxRepos :
          Becomes(AppState(repos, IF index < Len(repos) THEN index ELSE active_tab),
                  Call("set_active_tab", <<index>>))

(* ------------------------------ app_view.rs ---------------------------- *)

\* the entity cx.new(|cx| RepoView::new(path, cx)) makes
RepoView(path) == [path |-> path]

\* the Vec<TabInfo> sync_tab_bar hands to TabBar::set_tabs; is_dirty, read
\* from the repository on disk, is left out
sync_tab_bar(state) ==
    [i \in 1..Len(state.repos) |->
        [name |-> state.repos[i].name, is_active |-> (i - 1 = state.active_tab)]]

\* the fields of the AppView, with the tabs of its TabBar
AppView ==
    [state |-> AppState(repos, active_tab), repo_views |-> repo_views,
     tabs |-> bar_tabs, error_message |-> app_error_message]

Synced(self) == [self EXCEPT !.tabs = sync_tab_bar(self.state)]

\* the message of try_add_repo for a path
NotARepository(path) == <<path, " is not a git repository">>

\* opens: whether dd_git::Repository::open(&path) is Ok
try_add_repo(self, path, opens) ==
    IF \E k \in 1..Len(self.state.repos) : self.state.repos[k].path = path
    THEN self
    ELSE IF opens
    THEN Synced([self EXCEPT !.error_message = None,
                             !.state = add_repo(@, path),
                             !.repo_views = Append(@, RepoView(path))])
    ELSE [self EXCEPT !.error_message = Some(NotARepository(path))]

\* reorder_repo that moves the repo in the state and not its view
reorder_repo_state_only(self, from, to) ==
    LET len == Len(self.repo_views) IN
    IF from = to \/ from >= len \/ to >= len THEN self
    ELSE Synced([self EXCEPT !.state = reorder_repos(@, from, to)])

\* the deferred sync_tab_bar runs before the next event
reorder_repo(self, from, to) ==
    LET len == Len(self.repo_views) IN
    IF from = to \/ from >= len \/ to >= len THEN self
    ELSE Synced([self EXCEPT
                    !.repo_views = Insert(Remove(@, from), to, self.repo_views[from + 1]),
                    !.state = reorder_repos(@, from, to)])

\* AppView::remove_repo
AppView_remove_repo(self, index) ==
    IF index < Len(self.repo_views)
    THEN Synced([self EXCEPT !.repo_views = Remove(@, index),
                             !.state = remove_repo(@, index)])
    ELSE self

set_active_tab(self, index) ==
    IF index < Len(self.state.repos)
    THEN Synced([self EXCEPT !.state.active_tab = index])
    ELSE self

close_active_tab(self) ==
    IF self.state.repos # <<>>
    THEN AppView_remove_repo(self, Min(self.state.active_tab, Len(self.state.repos) - 1))
    ELSE self

next_tab(self) ==
    LET len == Len(self.state.repos) IN
    IF len > 1
    THEN Synced([self EXCEPT !.state.active_tab = (@ + 1) % len])
    ELSE self

previous_tab(self) ==
    LET len == Len(self.state.repos) IN
    IF len > 1
    THEN Synced([self EXCEPT !.state.active_tab = (@ + len - 1) % len])
    ELSE self

\* the callbacks setup_tab_bar gives the TabBar
on_select(self, index) == Synced([self EXCEPT !.state.active_tab = index])
on_reorder(self, from, to) == reorder_repo(self, from, to)
on_close(self, index) == AppView_remove_repo(self, index)

\* Vec::retain: the elements of v at the indices of kept, in order
RECURSIVE Retain(_, _, _)
Retain(v, kept, k) ==
    IF k > Len(v) THEN <<>>
    ELSE (IF k \in kept THEN <<v[k]>> ELSE <<>>) \o Retain(v, kept, k + 1)

\* AppView::new on the state of the session; opens: the indices of the
\* repos that dd_git::Repository::open opens
AppView_new(state, opens) ==
    LET kept == Retain(state.repos, opens, 1)
        active == Min(state.active_tab, Max(Len(kept) - 1, 0))
    IN  Synced([state |-> AppState(kept, active),
                repo_views |-> [i \in 1..Len(kept) |-> RepoView(kept[i].path)],
                tabs |-> <<>>,
                error_message |-> None])

\* the state after a call on the AppView
AppViewBecomes(self, call) ==
    /\ repos' = self.state.repos
    /\ active_tab' = self.state.active_tab
    /\ repo_views' = self.repo_views
    /\ bar_tabs' = self.tabs
    /\ app_error_message' = self.error_message
    /\ op' = call
    /\ UNCHANGED <<request, diff, diff_view, input>>

New ==
    /\ pc = "session"
    /\ pc' = "app_view"
    /\ \E opens \in SUBSET (1..Len(repos)) :
          AppViewBecomes(AppView_new(AppState(repos, active_tab), opens), Call("new", <<opens>>))

TryAddRepo ==
    /\ pc = "app_view"
    /\ Len(repos) < MaxRepos
    /\ \E path \in RepoPaths : \E opens \in BOOLEAN :
          AppViewBecomes(try_add_repo(AppView, path, opens),
                         Call("try_add_repo", <<path, opens>>))
    /\ UNCHANGED pc

ReorderRepo ==
    /\ pc = "app_view"
    /\ \E from \in 0..MaxRepos : \E to \in 0..MaxRepos :
          AppViewBecomes(reorder_repo(AppView, from, to), Call("reorder_repo", <<from, to>>))
    /\ UNCHANGED pc

RemoveRepoView ==
    /\ pc = "app_view"
    /\ \E index \in 0..MaxRepos :
          AppViewBecomes(AppView_remove_repo(AppView, index), Call("remove_repo", <<index>>))
    /\ UNCHANGED pc

SetActiveTabView ==
    /\ pc = "app_view"
    /\ \E index \in 0..MaxRepos :
          AppViewBecomes(set_active_tab(AppView, index), Call("set_active_tab", <<index>>))
    /\ UNCHANGED pc

CloseActiveTab ==
    /\ pc = "app_view"
    /\ AppViewBecomes(close_active_tab(AppView), Call("close_active_tab", <<>>))
    /\ UNCHANGED pc

NextTab ==
    /\ pc = "app_view"
    /\ AppViewBecomes(next_tab(AppView), Call("next_tab", <<>>))
    /\ UNCHANGED pc

PreviousTab ==
    /\ pc = "app_view"
    /\ AppViewBecomes(previous_tab(AppView), Call("previous_tab", <<>>))
    /\ UNCHANGED pc

\* TabBar::select_tab, close_tab and reorder_tab call the callbacks with the
\* indices they are given
TabSelect ==
    /\ pc = "app_view"
    /\ \E index \in 0..MaxRepos :
          AppViewBecomes(on_select(AppView, index), Call("on_select", <<index>>))
    /\ UNCHANGED pc

TabReorder ==
    /\ pc = "app_view"
    /\ \E from \in 0..MaxRepos : \E to \in 0..MaxRepos :
          AppViewBecomes(on_reorder(AppView, from, to), Call("on_reorder", <<from, to>>))
    /\ UNCHANGED pc

TabClose ==
    /\ pc = "app_view"
    /\ \E index \in 0..MaxRepos :
          AppViewBecomes(on_close(AppView, index), Call("on_close", <<index>>))
    /\ UNCHANGED pc

(* ----------------------------- diff_view.rs ---------------------------- *)

SPLIT_VIEW_MIN_WIDTH == 1000

\* the fields of the DiffView
This ==
    [diffs |-> diffs, commit_info |-> commit_info,
     signature_status |-> signature_status, error_message |-> error_message,
     mode |-> mode]

set_diffs(self, new_diffs) ==
    [self EXCEPT !.diffs = new_diffs, !.commit_info = None,
                 !.signature_status = None, !.error_message = None]

set_commit_data(self, commit, signature, new_diffs) ==
    [self EXCEPT !.commit_info = Some(commit), !.signature_status = Some(signature),
                 !.diffs = new_diffs, !.error_message = None]

\* set_error without `self.diffs.clear()`
set_error_keeps_diffs(self, message) ==
    [self EXCEPT !.error_message = Some(message), !.commit_info = None,
                 !.signature_status = None]

set_error(self, message) ==
    [self EXCEPT !.error_message = Some(message), !.diffs = <<>>,
                 !.commit_info = None, !.signature_status = None]

\* new_mode with `>` for `>=`
new_mode_above(bounds_width) ==
    IF bounds_width > SPLIT_VIEW_MIN_WIDTH THEN "Split" ELSE "Unified"

\* the mode the canvas of render computes from the width it measures
new_mode(bounds_width) ==
    IF bounds_width >= SPLIT_VIEW_MIN_WIDTH THEN "Split" ELSE "Unified"

\* the lists of FileDiff, the commits, the signatures, the messages and the
\* widths in whole pixels a DiffView is given
DiffLists ==
    { <<>>, <<[path |-> <<"X">>, old_path |-> None, status |-> "Modified",
               hunks |-> <<>>]>>,
      <<[path |-> <<"X">>, old_path |-> None, status |-> "Modified", hunks |-> <<>>],
        [path |-> <<"Y">>, old_path |-> None, status |-> "Added", hunks |-> <<>>]>> }
Commits == {"c1"}
Signatures == {"Good", "None"}
Messages == {"", "e"}
Widths == {0, SPLIT_VIEW_MIN_WIDTH - 1, SPLIT_VIEW_MIN_WIDTH, SPLIT_VIEW_MIN_WIDTH + 1}

\* a setter has run and called cx.notify()
Set(self) ==
    /\ diffs' = self.diffs
    /\ commit_info' = self.commit_info
    /\ signature_status' = self.signature_status
    /\ error_message' = self.error_message
    /\ mode' = self.mode
    /\ notified' = TRUE
    /\ UNCHANGED <<width, frames, drawn, request, app, app_view, diff, input, pc>>

SetDiffs ==
    /\ pc = "diff_view"
    /\ \E new_diffs \in DiffLists : Set(set_diffs(This, new_diffs))

SetCommitData ==
    /\ pc = "diff_view"
    /\ \E commit \in Commits : \E signature \in Signatures : \E new_diffs \in DiffLists :
          Set(set_commit_data(This, commit, signature, new_diffs))

SetError ==
    /\ pc = "diff_view"
    /\ \E message \in Messages : Set(set_error(This, message))

\* DiffView::render, with the canvas's measurement of the frame it builds:
\* the content is drawn in the mode of the frame before, then the mode is
\* set from the width and the view notified if it changed
Render ==
    /\ pc = "diff_view"
    /\ IF IsSome(error_message)
       THEN /\ drawn' = "error"
            /\ notified' = FALSE
            /\ UNCHANGED <<mode, frames>>
       ELSE IF diffs = <<>>
       THEN /\ drawn' = "empty"
            /\ notified' = FALSE
            /\ UNCHANGED <<mode, frames>>
       ELSE /\ drawn' = mode
            /\ mode' = new_mode(width)
            /\ notified' = (mode # new_mode(width))
            /\ frames' = Min(frames + 1, MaxFrames)
    /\ UNCHANGED <<diffs, commit_info, signature_status, error_message, width,
                   request, app, app_view, diff, input, pc>>

\* the parent panel gives the view another width and the window is redrawn
Resize ==
    /\ pc = "diff_view"
    /\ \E bounds_width \in Widths \ {width} :
          /\ width' = bounds_width
          /\ frames' = 0
          /\ notified' = TRUE
    /\ UNCHANGED <<diffs, commit_info, signature_status, error_message, mode, drawn,
                   request, app, app_view, diff, input, pc>>

(* ------------------------------- inputs -------------------------------- *)

SeqsUpTo(S, n) == UNION {[1..k -> S] : k \in 0..n}

HunkHeader(old_start, new_start) ==
    <<"@", "@", " ", "-">> \o Dec(old_start) \o <<",", "2", " ", "+">>
    \o Dec(new_start) \o <<" ", "@", "@">>

DiffHeaderXY == DiffGit \o <<" ", "a", "/", "x", " ", "b", "/", "y">>

\* lines of file headers, with one well-formed hunk header and one body line
HeaderCatalog ==
    { DiffHeaderXY,
      NewFile,
      RenameFrom \o <<"x">>,
      Dashes \o <<" ", "a", "/", "x">>,
      Pluses \o <<" ", "b", "/", "y">>,
      HunkHeader(1, 3),
      <<"+", "a">> }

\* deletions, additions and a context line, with a repeated word and a
\* two-byte character
DiffCatalog ==
    { <<"-", "a", " ", "a">>,
      <<"-", "b">>,
      <<"+", "a">>,
      <<"+", "W", " ", "a">>,
      <<" ", "a">> }

\* one hunk body line of every class: '+', '-', ' ', '\', other, empty
ClassCatalog ==
    { <<"+", "a">>,
      <<"-", "a">>,
      <<" ", "a">>,
      <<"\\">>,
      <<"b">>,
      <<>> }

\* hunk headers with well-formed, maximal, missing and unparsable numeric fields
HunkHeaders ==
    { HunkHeader(1, 3),
      HunkHeader(U32Max, U32Max),
      AtAt,
      <<"@", "@", " ", "-", "x", " ", "+", "1", ",", " ", "@", "@">> }

\* the line "diff --git a/X b/Y"
DiffHeader(X, Y) == DiffGit \o <<" ", "a", "/">> \o X \o <<" ", "b", "/">> \o Y

PathX == <<"x">>
PathXX == <<"x", " ", "x">>
PathY == <<"y">>
PathYY == <<"y", " ", "y">>

\* "diff --git" lines: plain paths, a space in the old path, a space in the
\* new path, and no paths at all
DiffHeaders ==
    { DiffHeader(PathX, PathY),
      DiffHeader(PathXX, PathY),
      DiffHeader(PathX, PathYY),
      DiffGit }

IndexLine == <<"i", "n", "d", "e", "x">>

\* extended-header lines
ExtCatalog ==
    { NewFile,
      DeletedFile,
      RenameFrom \o PathX,
      RenameFrom \o PathXX,
      RenameTo \o <<" ">> \o PathY,
      IndexLine }

\* what may follow the extended header of a file block: nothing, or a hunk
BlockTails == { <<>>, <<HunkHeader(1, 3), <<"+", "a">>>> }

\* "-start" or "-start,count" (sign '-' or '+'); count is an Option
RangeText(sign, start, count) ==
    <<sign>> \o start \o (IF IsSome(count) THEN <<",">> \o count[1] ELSE <<>>)

\* the line "@@ -old +new @@", followed by " fn" when ctx
FormatHeader(old, new, ctx) ==
    AtAt \o <<" ">> \o RangeText("-", old[1], old[2]) \o <<" ">>
    \o RangeText("+", new[1], new[2]) \o <<" ">> \o AtAt
    \o (IF ctx THEN <<" ", "f", "n">> ELSE <<>>)

\* numeric fields: in range, too large for the counter, not a number, empty
StartFields == { <<"3">>, Dec(U32Max + 1), <<"x">> }
CountFields == { <<"2">>, Dec(U32Max + 1), <<"x">>, <<>> }

\* <<start, count>>: a range with or without its ",count" part
Ranges == StartFields \X ({None} \cup {Some(c) : c \in CountFields})

\* hunk bodies that end or begin with a run
RunBodies == { <<<<"-", "b">>>>, <<<<"+", "a">>>>,
               <<<<"-", "b">>, <<"+", "a">>>>, <<<<" ", "a">>>> }

\* whole texts of header lines; one file with one well-formed hunk whose
\* body has runs of deletions and additions; one file with one hunk of any
\* header and a short body of any line classes; one file block with its
\* extended header; one file with one hunk header of any numeric fields;
\* one file with two hunks
Inputs ==
    SeqsUpTo(HeaderCatalog, MaxLines)
    \cup {<<DiffHeaderXY, HunkHeader(1, 3)>> \o body :
             body \in SeqsUpTo(DiffCatalog, MaxBody)}
    \cup {<<DiffHeaderXY, h>> \o body :
             h \in HunkHeaders, body \in SeqsUpTo(ClassCatalog, MaxClassBody)}
    \cup {<<d>> \o ext \o tail :
             d \in DiffHeaders, ext \in SeqsUpTo(ExtCatalog, MaxExt),
             tail \in BlockTails}
    \cup {<<DiffHeaderXY, FormatHeader(old, new, ctx)>> :
             old \in Ranges, new \in Ranges, ctx \in BOOLEAN}
    \cup {<<DiffHeaderXY, HunkHeader(1, 3)>> \o first
             \o <<HunkHeader(1, 3)>> \o second :
             first \in RunBodies, second \in RunBodies}

NoFile == [path |-> <<>>, old_path |-> None, status |-> "Modified", hunks |-> <<>>]
NoHunk == [header |-> <<>>, old_start |-> 0, old_count |-> 0, new_start |-> 0,
           new_count |-> 0, lines |-> <<>>]

\* no parse has begun
DiffIdle ==
    /\ build \in {"debug", "release"}
    /\ pos = 1
    /\ files = <<>>
    /\ cur = NoFile
    /\ hunk = NoHunk
    /\ old_line = 0
    /\ new_line = 0
    /\ inline_runs = 0
    /\ rows = <<>>

\* no request has been made
RequestIdle == oid = <<>> /\ invocations = <<>> /\ error = None

\* AppState::default()
AppDefault == repos = <<>> /\ active_tab = 0 /\ op = Call("default", <<>>)

\* DiffView::new_empty()
DiffViewEmpty ==
    /\ diffs = <<>>
    /\ commit_info = None
    /\ signature_status = None
    /\ error_message = None
    /\ mode = "Unified"

\* no view has been made
UiIdle ==
    /\ repo_views = <<>> /\ bar_tabs = <<>> /\ app_error_message = None
    /\ DiffViewEmpty
    /\ width = 0 /\ notified = FALSE /\ frames = 0 /\ drawn = "none"

\* parse_unified_diff is called on a text
Init ==
    /\ input \in Inputs
    /\ pc = "scan"
    /\ DiffIdle
    /\ RequestIdle
    /\ AppDefault
    /\ UiIdle

Next ==
    \/ ScanSkip
    \/ FileHeader
    \/ ExtHeaderLine
    \/ ExtEnd
    \/ HunkLoopSkip
    \/ HunkStart
    \/ FilePush
    \/ BodyAddition
    \/ BodyDeletion
    \/ BodyContext
    \/ BodyNoNewline
    \/ BodyOther
    \/ HunkEnd
    \/ ParseReturn
    \/ ComputeInlineChanges
    \/ RenderSplit

Spec == Init /\ [][Next]_vars

\* commit identifiers: hexadecimal digits of both cases and of neither
OidChars == {"a", "F", "9", "g", "-"}

\* diff_commit is called on a commit identifier
InitDiffCommit ==
    /\ oid \in SeqsUpTo(OidChars, MaxOid)
    /\ invocations = <<>>
    /\ error = None
    /\ input = <<>>
    /\ pc = "diff_commit"
    /\ DiffIdle
    /\ AppDefault
    /\ UiIdle

NextDiffCommit ==
    \/ EnsureOid
    \/ GitDiffTree
    \/ GitDiffTreeRoot
    \/ ScanSkip
    \/ FileHeader
    \/ ExtHeaderLine
    \/ ExtEnd
    \/ HunkLoopSkip
    \/ HunkStart
    \/ FilePush
    \/ BodyAddition
    \/ BodyDeletion
    \/ BodyContext
    \/ BodyNoNewline
    \/ BodyOther
    \/ HunkEnd
    \/ ParseReturn

SpecDiffCommit == InitDiffCommit /\ [][NextDiffCommit]_vars

\* an AppState is created and its methods are called
InitApp ==
    /\ AppDefault
    /\ pc = "app"
    /\ input = <<>>
    /\ DiffIdle
    /\ RequestIdle
    /\ UiIdle

NextApp ==
    \/ AddRepo
    \/ ReorderRepos
    \/ RemoveRepo
    \/ SetActiveTab

SpecApp == InitApp /\ [][NextApp]_vars

(* ------------------------------- claims -------------------------------- *)

\* the hunks parse_unified_diff has returned or is still building
HunkAt(f, h) == files[f].hunks[h]

\* parse_unified_diff panicked: the step at a body line did not complete
ParsePanicked == pc = "panic" /\ pos <= Len(input)

\* C1: parse_unified_diff never panics and returns Ok(files) for every input
\* text, whatever the hunk headers hold and wherever the input ends.
C1_ParseNeverPanics == ~ParsePanicked

\* number of lines before index k whose origin is one of origins
EarlierCount(lines, k, origins) ==
    Cardinality({j \in 1..(k - 1) : lines[j].origin \in origins})

LineNumbersFromStarts(h) ==
    \A k \in 1..Len(h.lines) :
        LET l == h.lines[k] IN
        /\ l.origin \in {"Context", "Deletion"} =>
              l.old_line_no =
                 Some(h.old_start + EarlierCount(h.lines, k, {"Context", "Deletion"}))
        /\ l.origin \in {"Context", "Addition"} =>
              l.new_line_no =
                 Some(h.new_start + EarlierCount(h.lines, k, {"Context", "Addition"}))
        /\ l.origin = "Addition" => l.old_line_no = None
        /\ l.origin = "Deletion" => l.new_line_no = None

\* C2: in every hunk of the parse result each line's numbers are old_start
\* and new_start plus the number of earlier lines that count on that side,
\* and an Addition has no old number, a Deletion no new number.
C2_LineNumbers ==
    pc = "parsed" =>
        \A f \in 1..Len(files) : \A h \in 1..Len(files[f].hunks) :
            LineNumbersFromStarts(HunkAt(f, h))

\* the step appends exactly one line, of this origin and content
EmitsLine(origin, content) ==
    /\ Len(hunk'.lines) = Len(hunk.lines) + 1
    /\ SubSeq(hunk'.lines, 1, Len(hunk.lines)) = hunk.lines
    /\ hunk'.lines[Len(hunk'.lines)].origin = origin
    /\ hunk'.lines[Len(hunk'.lines)].content = content

ClassifiedByFirstChar ==
    LET line == input[pos] IN
    IF line # <<>> /\ Head(line) = "+" THEN EmitsLine("Addition", Tail(line))
    ELSE IF line # <<>> /\ Head(line) = "-" THEN EmitsLine("Deletion", Tail(line))
    ELSE IF line # <<>> /\ Head(line) = " " THEN EmitsLine("Context", Tail(line))
    ELSE IF line # <<>> /\ Head(line) = "\\"
         THEN hunk' = hunk /\ old_line' = old_line /\ new_line' = new_line
    ELSE /\ EmitsLine("Context", line)
         /\ old_line' = old_line + 1
         /\ new_line' = new_line + 1

\* C3: every step of parse_hunk at a body line classifies the line by its
\* first character: '+', '-' and ' ' emit an Addition, a Deletion and a
\* Context line with the rest as content, '\' emits nothing and leaves both
\* counters, any other line emits a Context line with the full line as
\* content and adds one to both counters.
C3_Classification == [][InBody => ClassifiedByFirstChar]_vars

(* runs of deletions and additions, stated without the scan *)

\* <<s, e, f>>: lines s..e-1 are a maximal run of deletions, lines e..f-1
\* the maximal (possibly empty) run of additions right after it
Groups(lines) ==
    LET n == Len(lines) IN
    {g \in (1..n) \X (2..(n + 1)) \X (2..(n + 1)) :
        /\ g[1] < g[2] /\ g[2] <= g[3]
        /\ \A k \in g[1]..(g[2] - 1) : lines[k].origin = "Deletion"
        /\ g[1] = 1 \/ lines[g[1] - 1].origin # "Deletion"
        /\ g[2] = n + 1 \/ lines[g[2]].origin # "Deletion"
        /\ \A k \in g[2]..(g[3] - 1) : lines[k].origin = "Addition"
        /\ g[3] = n + 1 \/ lines[g[3]].origin # "Addition"}

DelCount(g) == g[2] - g[1]
AddCount(g) == g[3] - g[2]

\* the 1:1 pairs <<k, j>>: line k is the p-th deletion of a run and line j
\* the p-th addition of the run right after it
Pairs(lines) ==
    UNION {{<<g[1] + p, g[2] + p>> : p \in 0..(Min(DelCount(g), AddCount(g)) - 1)} :
              g \in Groups(lines)}

\* the lines that belong to a 1:1 pair
PairedLines(lines) == {pr[1] : pr \in Pairs(lines)} \cup {pr[2] : pr \in Pairs(lines)}

InlineRan == pc \in {"parsed", "split"} /\ inline_runs >= 1

\* C4: after compute_inline_changes, for every deletion run followed by an
\* addition run, the p-th deletion and the p-th addition carry the spans of
\* the word diff of their two contents for every p below the smaller count,
\* and the surplus lines of the longer run have empty change_spans.
C4_PairedSpans ==
    InlineRan =>
        \A f \in 1..Len(files) : \A h \in 1..Len(files[f].hunks) :
            LET lines == HunkAt(f, h).lines IN
            \A g \in Groups(lines) :
                AddCount(g) > 0 =>
                    LET pairs == Min(DelCount(g), AddCount(g)) IN
                    /\ \A p \in 0..(pairs - 1) :
                          LET spans == word_diff(ContentStr(lines, g[1] + p),
                                                 ContentStr(lines, g[2] + p))
                          IN  /\ lines[g[1] + p].change_spans = spans[1]
                              /\ lines[g[2] + p].change_spans = spans[2]
                    /\ \A k \in ((g[1] + pairs)..(g[2] - 1))
                                 \cup ((g[2] + pairs)..(g[3] - 1)) :
                          lines[k].change_spans = <<>>

\* a run pair of unequal counts whose first pair got spans
C4_Witness ==
    /\ InlineRan
    /\ \E f \in 1..Len(files) : \E h \in 1..Len(files[f].hunks) :
          LET lines == HunkAt(f, h).lines IN
          \E g \in Groups(lines) :
              /\ AddCount(g) > 0
              /\ DelCount(g) # AddCount(g)
              /\ lines[g[1]].change_spans # <<>>

\* C5: after parsing and one run of compute_inline_changes every line with
\* non-empty change_spans is a Deletion or an Addition of a 1:1 pair.
C5_SpansOnlyOnPairs ==
    (pc \in {"parsed", "split"} /\ inline_runs = 1) =>
        \A f \in 1..Len(files) : \A h \in 1..Len(files[f].hunks) :
            LET lines == HunkAt(f, h).lines
                paired == PairedLines(lines)
            IN  \A k \in 1..Len(lines) :
                    lines[k].change_spans # <<>> =>
                        /\ lines[k].origin \in {"Deletion", "Addition"}
                        /\ k \in paired

\* one run done on a hunk with a lone addition, a pair with spans and a
\* lone deletion
C5_Witness ==
    /\ pc = "parsed" /\ inline_runs = 1
    /\ \E f \in 1..Len(files) : \E h \in 1..Len(files[f].hunks) :
          LET lines == HunkAt(f, h).lines IN
          /\ \E k \in 1..Len(lines) :
                lines[k].origin = "Addition" /\ k \notin PairedLines(lines)
          /\ \E k \in 1..Len(lines) :
                lines[k].origin = "Deletion" /\ k \notin PairedLines(lines)
          /\ \E k \in 1..Len(lines) : lines[k].change_spans # <<>>

\* rows that the lines call for: one per Context line, max(d, a) per run pair
ExpectedRows(lines) ==
    Cardinality({k \in 1..Len(lines) : lines[k].origin = "Context"})
    + Cardinality({k \in 1..Len(lines) : lines[k].origin = "Deletion"})
    + Cardinality({k \in 1..Len(lines) : lines[k].origin = "Addition"})
    - Cardinality(Pairs(lines))

\* C6: split_hunk_lines returns one row per Context line and max(d, a) rows
\* per deletion run with its addition run, in source order: the row of a
\* Context line comes right after the rows of the lines before it; no lines
\* give no rows.
C6_RowCount ==
    pc = "split" =>
        \A f \in 1..Len(files) : \A h \in 1..Len(files[f].hunks) :
            LET lines == HunkAt(f, h).lines
                r == rows[f][h]
            IN  /\ Len(r) = ExpectedRows(lines)
                /\ \A k \in 1..Len(lines) :
                      lines[k].origin = "Context" =>
                          LET at == ExpectedRows(SubSeq(lines, 1, k - 1)) + 1 IN
                          at <= Len(r) /\ r[at] = SplitRow(Some(lines[k]), Some(lines[k]))

\* rows of a hunk with a Context line after a run pair of unequal counts
C6_Witness ==
    /\ pc = "split"
    /\ \E f \in 1..Len(files) : \E h \in 1..Len(files[f].hunks) :
          LET lines == HunkAt(f, h).lines IN
          /\ \E g \in Groups(lines) :
                /\ AddCount(g) > 0 /\ AddCount(g) # DelCount(g)
                /\ g[3] <= Len(lines) /\ lines[g[3]].origin = "Context"
          /\ Len(rows[f][h]) < Len(lines)

\* C7: for d deletions followed by a additions the rows are first min(d, a)
\* rows pairing the p-th deletion with the p-th addition, then the d - a
\* remaining deletions with right = None or the a - d remaining additions
\* with left = None.
C7_PairsThenSurplus ==
    pc = "split" =>
        \A f \in 1..Len(files) : \A h \in 1..Len(files[f].hunks) :
            LET lines == HunkAt(f, h).lines
                r == rows[f][h]
            IN  \A g \in Groups(lines) :
                    AddCount(g) > 0 =>
                        LET d == DelCount(g)
                            a == AddCount(g)
                            pairs == Min(d, a)
                            at == ExpectedRows(SubSeq(lines, 1, g[1] - 1))
                        IN  /\ at + Max(d, a) <= Len(r)
                            /\ \A p \in 1..pairs :
                                  r[at + p] = SplitRow(Some(lines[g[1] + p - 1]),
                                                       Some(lines[g[2] + p - 1]))
                            /\ \A q \in 1..(d - a) :
                                  r[at + pairs + q] =
                                     SplitRow(Some(lines[g[1] + pairs + q - 1]), None)
                            /\ \A q \in 1..(a - d) :
                                  r[at + pairs + q] =
                                     SplitRow(None, Some(lines[g[2] + pairs + q - 1]))

\* rows of a run pair with more deletions than additions
C7_Witness ==
    /\ pc = "split"
    /\ \E f \in 1..Len(files) : \E h \in 1..Len(files[f].hunks) :
          \E g \in Groups(HunkAt(f, h).lines) :
              AddCount(g) > 0 /\ DelCount(g) > AddCount(g) /\ Len(rows[f][h]) > 0

\* C8: every row has a side; a left side is a Context or Deletion line, a
\* right side a Context or Addition line; both sides are present only for
\* one Context line on both sides or for a 1:1 paired deletion and addition.
C8_RowSides ==
    pc = "split" =>
        \A f \in 1..Len(files) : \A h \in 1..Len(files[f].hunks) :
            LET lines == HunkAt(f, h).lines
                r == rows[f][h]
                pairs == Pairs(lines)
            IN  \A i \in 1..Len(r) :
                    /\ IsSome(r[i].left) \/ IsSome(r[i].right)
                    /\ IsSome(r[i].left) =>
                          r[i].left[1].origin \in {"Context", "Deletion"}
                    /\ IsSome(r[i].right) =>
                          r[i].right[1].origin \in {"Context", "Addition"}
                    /\ (IsSome(r[i].left) /\ IsSome(r[i].right)) =>
                          \/ r[i].left = r[i].right /\ r[i].left[1].origin = "Context"
                          \/ \E pr \in pairs :
                                /\ r[i].left[1] = lines[pr[1]]
                                /\ r[i].right[1] = lines[pr[2]]

\* rows of three shapes in one hunk: a Context row, a paired row and a row
\* with one side only
C8_Witness ==
    /\ pc = "split"
    /\ \E f \in 1..Len(files) : \E h \in 1..Len(files[f].hunks) :
          LET r == rows[f][h] IN
          /\ \E i \in 1..Len(r) : r[i].left = r[i].right
          /\ \E i \in 1..Len(r) :
                IsSome(r[i].left) /\ IsSome(r[i].right) /\ r[i].left # r[i].right
          /\ \E i \in 1..Len(r) : r[i].right = None \/ r[i].left = None

\* the characters of text that occupy the bytes start..end-1
IsCharBoundary(text, b) ==
    \E i \in 0..Len(text) : ByteLength(SubSeq(text, 1, i)) = b

ByteSlice(text, start, end) ==
    LET i == CHOOSE i \in 0..Len(text) : ByteLength(SubSeq(text, 1, i)) = start
        j == CHOOSE j \in 0..Len(text) : ByteLength(SubSeq(text, 1, j)) = end
    IN  SubSeq(text, i + 1, j)

IsDelete(c) == c.tag = "Delete"
IsInsert(c) == c.tag = "Insert"

\* spans are, one for one and in order, the places of the segments in the
\* line whose content lives at address base
SpansLocate(spans, segments, content, base) ==
    /\ Len(spans) = Len(segments)
    /\ \A i \in 1..Len(spans) :
          /\ spans[i].start = segments[i].value.ptr - base
          /\ IsCharBoundary(content, spans[i].start)
          /\ IsCharBoundary(content, spans[i].end)
          /\ spans[i].start <= spans[i].end
          /\ ByteSlice(content, spans[i].start, spans[i].end) = segments[i].value.text

\* C9: the spans of a paired deletion (addition) are the byte ranges of the
\* removed (inserted) segments at the very positions the word diff reported:
\* slicing the content by a span gives the segment's text, also when that
\* text occurs elsewhere in the line.
C9_SpansAtReportedPlace ==
    InlineRan =>
        \A f \in 1..Len(files) : \A h \in 1..Len(files[f].hunks) :
            LET lines == HunkAt(f, h).lines IN
            \A pr \in Pairs(lines) :
                LET k == pr[1]
                    j == pr[2]
                    changes == diff_words(ContentStr(lines, k), ContentStr(lines, j))
                IN  /\ SpansLocate(lines[k].change_spans, SelectSeq(changes, IsDelete),
                                   lines[k].content, ContentAddr(lines, k))
                    /\ SpansLocate(lines[j].change_spans, SelectSeq(changes, IsInsert),
                                   lines[j].content, ContentAddr(lines, j))

\* the text of some span occurs in its line before the span as well
C9_Witness ==
    /\ InlineRan
    /\ \E f \in 1..Len(files) : \E h \in 1..Len(files[f].hunks) :
          LET lines == HunkAt(f, h).lines IN
          \E k \in 1..Len(lines) : \E i \in 1..Len(lines[k].change_spans) :
              LET sp == lines[k].change_spans[i] IN
              \E b \in 0..(sp.start - 1) :
                  /\ IsCharBoundary(lines[k].content, b)
                  /\ IsCharBoundary(lines[k].content, b + (sp.end - sp.start))
                  /\ ByteSlice(lines[k].content, b, b + (sp.end - sp.start))
                        = ByteSlice(lines[k].content, sp.start, sp.end)

\* compute_inline_changes panicked: a debug assertion of word_diff failed
InlinePanicked == pc = "panic" /\ pos > Len(input)

\* C10: every span on every line lies within the line's content,
\* 0 <= start <= end <= byte length, and compute_inline_changes never
\* crashes on a segment it cannot locate.
C10_SpansInBounds ==
    /\ ~InlinePanicked
    /\ \A f \in 1..Len(files) : \A h \in 1..Len(files[f].hunks) :
          LET lines == HunkAt(f, h).lines IN
          \A k \in 1..Len(lines) : \A i \in 1..Len(lines[k].change_spans) :
              LET sp == lines[k].change_spans[i] IN
              /\ 0 <= sp.start
              /\ sp.start <= sp.end
              /\ sp.end <= ByteLength(lines[k].content)

\* a span that ends at the last byte of a line holding a two-byte character
C10_Witness ==
    /\ InlineRan
    /\ \E f \in 1..Len(files) : \E h \in 1..Len(files[f].hunks) :
          LET lines == HunkAt(f, h).lines IN
          \E k \in 1..Len(lines) : \E i \in 1..Len(lines[k].change_spans) :
              /\ lines[k].change_spans[i].end = ByteLength(lines[k].content)
              /\ ByteLength(lines[k].content) > Len(lines[k].content)

\* a further run of compute_inline_changes on hunks it has already run on,
\* with nothing cleared in between
SecondRun == inline_runs >= 1 /\ inline_runs' = inline_runs + 1

\* C11 (as stated): compute_inline_changes appends to the existing
\* change_spans, so on a second run without a reset the spans of every
\* paired line that has spans differ from those after the first run.
C11_SecondRunDiffers ==
    [][SecondRun =>
          \A f \in 1..Len(files) : \A h \in 1..Len(files[f].hunks) :
              LET lines == HunkAt(f, h).lines IN
              \A k \in PairedLines(lines) :
                  lines[k].change_spans # <<>> =>
                      files'[f].hunks[h].lines[k].change_spans # lines[k].change_spans]_vars

\* C11 (amended): compute_inline_changes replaces the change_spans of each
\* paired line, so a second run on the same hunks, with nothing cleared in
\* between, leaves every line's spans as they were after the first run.
C11_SecondRunSame == [][SecondRun => files' = files]_vars

\* two runs done, nothing cleared, on a hunk where a paired line has spans
C11_Witness ==
    /\ pc = "parsed" /\ inline_runs = 2
    /\ \E f \in 1..Len(files) : \E h \in 1..Len(files[f].hunks) :
          LET lines == HunkAt(f, h).lines IN
          \E k \in PairedLines(lines) : lines[k].change_spans # <<>>

(* the round trip from a hunk's lines back to its body *)

OriginPrefix(origin) ==
    IF origin = "Addition" THEN <<"+">>
    ELSE IF origin = "Deletion" THEN <<"-">>
    ELSE <<" ">>

\* each line written as its origin prefix followed by its content
Written(lines) ==
    [k \in 1..Len(lines) |-> OriginPrefix(lines[k].origin) \o lines[k].content]

\* parse_hunk has reached the end of its hunk: the next line starts a hunk
\* or a file, or the input is over
HunkComplete == pc = "body" /\ (IF IsSome(Peek) THEN BodyBreak(Peek[1]) ELSE TRUE)

\* the "@@" line of the hunk being parsed: the last one before pos
HunkHeaderAt ==
    CHOOSE j \in 1..(pos - 1) :
        /\ StartsWith(input[j], AtAt)
        /\ \A i \in (j + 1)..(pos - 1) : ~StartsWith(input[i], AtAt)

\* the input lines between the hunk's "@@" line and pos
BodyLines == SubSeq(input, HunkHeaderAt + 1, pos - 1)

NotMarker(line) == line = <<>> \/ Head(line) # "\\"

HasOriginPrefix(line) == line # <<>> /\ Head(line) \in {"+", "-", " "}

WithPrefix(line) == IF HasOriginPrefix(line) THEN line ELSE <<" ">> \o line

\* C12 (as stated): for every parsed hunk, the emitted lines written as
\* origin prefix plus content, in order, are the hunk's body lines of the
\* input without the lines that start with '\'.
C12_RoundTrip ==
    HunkComplete => Written(hunk.lines) = SelectSeq(BodyLines, NotMarker)

\* C12 (amended): the emitted lines written as origin prefix plus content,
\* in order, are the hunk's body lines without the lines that start with
\* '\', where a body line that starts with none of '+', '-', ' ' (the empty
\* line included) comes back with a ' ' put before it.
C12_RoundTripLenient ==
    HunkComplete =>
        LET body == SelectSeq(BodyLines, NotMarker) IN
        Written(hunk.lines) = [k \in 1..Len(body) |-> WithPrefix(body[k])]

\* a complete hunk whose body has a skipped '\' line and a line that starts
\* with none of '+', '-', ' ', the latter emitted
C12_Witness ==
    /\ HunkComplete
    /\ \E k \in 1..Len(BodyLines) : ~NotMarker(BodyLines[k])
    /\ \E k \in 1..Len(BodyLines) :
          NotMarker(BodyLines[k]) /\ ~HasOriginPrefix(BodyLines[k])
    /\ Len(hunk.lines) >= 1

(* file blocks, stated over the input lines *)

\* the "diff --git" lines of the input
HeaderPositions == {j \in 1..Len(input) : StartsWith(input[j], DiffGit)}

\* the position of the f-th "diff --git" line
NthHeader(f) ==
    CHOOSE j \in HeaderPositions :
        Cardinality({i \in HeaderPositions : i < j}) = f - 1

EndsExtHeader(line) ==
    \E p \in {Dashes, AtAt, DiffGit} : StartsWith(line, p)

\* the first position after j whose line starts with "---", "@@" or
\* "diff --git"; Len(input) + 1 when there is none
ExtEndOf(j) ==
    CHOOSE e \in (j + 1)..(Len(input) + 1) :
        /\ e = Len(input) + 1 \/ EndsExtHeader(input[e])
        /\ \A i \in (j + 1)..(e - 1) : ~EndsExtHeader(input[i])

\* the extended-header lines of the file block whose header is line j
ExtLines(j) == SubSeq(input, j + 1, ExtEndOf(j) - 1)

\* the block of header line j has no line that starts a hunk
NoHunksIn(j) ==
    \A i \in (j + 1)..Len(input) :
        StartsWith(input[i], AtAt) =>
            \E k \in (j + 1)..i : StartsWith(input[k], DiffGit)

Says(ext, prefix) == \E k \in 1..Len(ext) : StartsWith(ext[k], prefix)

StatusFromHeader(OldPaths, NewPaths) ==
    /\ Len(files) = Cardinality(HeaderPositions)
    /\ \A f \in 1..Len(files) :
          LET j == NthHeader(f)
              ext == ExtLines(j)
              new == Says(ext, NewFile)
              deleted == Says(ext, DeletedFile)
              from == Says(ext, RenameFrom)
              to == Says(ext, RenameTo)
          IN  /\ (~new /\ ~deleted /\ ~from /\ ~to) => files[f].status = "Modified"
              /\ (new /\ ~deleted /\ ~from /\ ~to) => files[f].status = "Added"
              /\ (deleted /\ ~new /\ ~from /\ ~to) => files[f].status = "Deleted"
              /\ (from /\ ~new /\ ~deleted) =>
                    /\ files[f].status = "Renamed"
                    /\ \E k \in 1..Len(ext) :
                          /\ StartsWith(ext[k], RenameFrom)
                          /\ files[f].old_path
                                = Some(SubSeq(ext[k], Len(RenameFrom) + 1, Len(ext[k])))
              /\ \A A \in OldPaths : \A B \in NewPaths :
                    (/\ input[j] = DiffHeader(A, B)
                     /\ \E k \in 1..Len(ext) : ext[k] = RenameFrom \o A
                     /\ \E k \in 1..Len(ext) : ext[k] = RenameTo \o <<" ">> \o B
                     /\ \A k \in 1..Len(ext) :
                           StartsWith(ext[k], RenameFrom) => ext[k] = RenameFrom \o A
                     /\ ~new /\ ~deleted
                     /\ NoHunksIn(j))
                    => files[f] = [path |-> B, old_path |-> Some(A),
                                   status |-> "Renamed", hunks |-> <<>>]

\* C13: a FileDiff's status is Modified unless a line of its extended header
\* says otherwise: 'new file' gives Added, 'deleted file' Deleted, 'rename
\* from X' Renamed with old_path X; a block with 'rename from A' and 'rename
\* to B' and no hunks gives one FileDiff: Renamed, path B, old_path A, no hunks.
C13_StatusFromHeader ==
    pc = "parsed" => StatusFromHeader({PathX, PathXX}, {PathY, PathYY})

\* C14: for every header line 'diff --git a/X b/Y' the FileDiff's path is Y,
\* whether or not X and Y contain spaces.
C14_PathIsBSide ==
    pc = "parsed" =>
        /\ Len(files) = Cardinality(HeaderPositions)
        /\ \A f \in 1..Len(files) :
              \A X \in {PathX, PathXX} : \A Y \in {PathY, PathYY} :
                  input[NthHeader(f)] = DiffHeader(X, Y) => files[f].path = Y

\* C15: in every FileDiff that parse_unified_diff returns, old_path is
\* present only if status is Renamed.
C15_OldPathOnlyRenamed ==
    pc = "parsed" =>
        \A f \in 1..Len(files) :
            IsSome(files[f].old_path) => files[f].status = "Renamed"

(* hunk headers, stated over the header's text *)

\* the number a field stands for: its value when it is the decimal form of
\* a number the counter can hold, 0 otherwise
NumberOf(field) ==
    IF \E n \in 0..U32Max : Dec(n) = field
    THEN CHOOSE n \in 0..U32Max : Dec(n) = field
    ELSE 0

CountOf(count) == IF count = None THEN 1 ELSE NumberOf(count[1])

\* parse_hunk has just read its "@@" line
HeaderJustRead == pc = "body" /\ hunk.lines = <<>>

\* C16: for a header '@@ -old_start[,old_count] +new_start[,new_count] @@
\* <context>' a range with no ',count' part gets count 1, and a start or
\* count that is not an unsigned number of the counter's width becomes 0;
\* the parse goes on.
C16_HeaderFields ==
    HeaderJustRead =>
        \A old \in Ranges : \A new \in Ranges : \A ctx \in BOOLEAN :
            hunk.header = FormatHeader(old, new, ctx) =>
                /\ hunk.old_start = NumberOf(old[1])
                /\ hunk.old_count = CountOf(old[2])
                /\ hunk.new_start = NumberOf(new[1])
                /\ hunk.new_count = CountOf(new[2])

\* a header with a context text, an old range without count, a new start
\* that is not a number and a new count too large for the counter
C16_Witness ==
    /\ HeaderJustRead
    /\ hunk.header = FormatHeader(<<<<"3">>, None>>,
                                  <<<<"x">>, Some(Dec(U32Max + 1))>>, TRUE)
    /\ hunk.old_start = 3 /\ hunk.old_count = 1
    /\ hunk.new_start = 0 /\ hunk.new_count = 0

(* diff_commit, stated over the record of its git invocations *)

IsRootAware(invocation) ==
    \E i \in 1..Len(invocation.args) : invocation.args[i] = "--root"

ExitedOk(invocation) == invocation.output.ran /\ invocation.output.code = 0

\* the text has nothing but spaces and line ends
WhitespaceOnly(text) ==
    \A k \in 1..Len(text) : \A i \in 1..Len(text[k]) : text[k][i] = " "

\* parse_unified_diff has been called: input is the text it was called on
ParserCalled == pc \notin {"diff_commit", "diff_tree", "diff_tree_root", "failed"}

\* C17: diff_commit invokes git diff-tree at most twice; the second,
\* root-aware invocation happens exactly when the first exited successfully
\* with whitespace-only output, and then the parser runs on the second
\* output; when the first output is not empty there is no second invocation
\* and the parser runs on the first output.
C17_RootRetry ==
    LET n == Len(invocations) IN
    /\ n <= 2
    /\ n >= 1 => ~IsRootAware(invocations[1])
    /\ n = 2 =>
          /\ IsRootAware(invocations[2])
          /\ ExitedOk(invocations[1])
          /\ WhitespaceOnly(invocations[1].output.stdout)
    /\ (n = 1 /\ ExitedOk(invocations[1])
          /\ WhitespaceOnly(invocations[1].output.stdout)) => pc = "diff_tree_root"
    /\ ParserCalled =>
          /\ n >= 1
          /\ ExitedOk(invocations[n])
          /\ input = invocations[n].output.stdout
          /\ n = 1 => ~WhitespaceOnly(input)

\* the first output was a blank line, the root-aware run gave a diff and
\* the parser returned its files
C17_Witness ==
    /\ pc = "parsed"
    /\ Len(invocations) = 2
    /\ invocations[1].output.stdout # <<>>
    /\ files # <<>>

\* C18: when a git invocation cannot be run or exits non-zero, diff_commit
\* returns an error at once: no invocation follows the failed one, the
\* root-aware variant included, and the parser is not run.
C18_FailFast ==
    \A i \in 1..Len(invocations) :
        ~ExitedOk(invocations[i]) =>
            /\ i = Len(invocations)
            /\ pc = "failed"
            /\ IsSome(error)
            /\ input = <<>> /\ pos = 1 /\ files = <<>>

\* the root-aware invocation exited non-zero and diff_commit returned an error
C18_Witness ==
    /\ pc = "failed"
    /\ Len(invocations) = 2
    /\ invocations[2].output.ran
    /\ invocations[2].output.code # 0

HexDigits ==
    {"0", "1", "2", "3", "4", "5", "6", "7", "8", "9",
     "a", "b", "c", "d", "e", "f", "A", "B", "C", "D", "E", "F"}

\* the commit identifier is not a string of hexadecimal digits
Malformed == \E i \in 1..Len(oid) : oid[i] \notin HexDigits

InitAppView ==
    /\ pc = "session"
    /\ \E paths \in SeqsUpTo(RepoPaths, MaxSession) :
          repos = [i \in 1..Len(paths) |-> RepoTab(paths[i])]
    /\ active_tab \in 0..MaxRepos
    /\ op = Call("load", <<>>)
    /\ UiIdle
    /\ input = <<>>
    /\ DiffIdle
    /\ RequestIdle

NextAppView ==
    \/ New
    \/ TryAddRepo
    \/ ReorderRepo
    \/ RemoveRepoView
    \/ SetActiveTabView
    \/ CloseActiveTab
    \/ NextTab
    \/ PreviousTab
    \/ TabSelect
    \/ TabReorder
    \/ TabClose

SpecAppView == InitAppView /\ [][NextAppView]_vars

\* a DiffView is created in a panel of some width and awaits its first render
InitDiffView ==
    /\ pc = "diff_view"
    /\ DiffViewEmpty
    /\ width \in Widths
    /\ notified = TRUE
    /\ frames = 0
    /\ drawn = "none"
    /\ repo_views = <<>> /\ bar_tabs = <<>> /\ app_error_message = None
    /\ input = <<>>
    /\ DiffIdle
    /\ RequestIdle
    /\ AppDefault

NextDiffView ==
    \/ SetDiffs
    \/ SetCommitData
    \/ SetError
    \/ Render
    \/ Resize

\* a notified view is rendered in the next frame
SpecDiffView == InitDiffView /\ [][NextDiffView]_vars /\ WF_vars(Render)

\* v without its element at index i (from 0)
Without(v, i) == [k \in 1..(Len(v) - 1) |-> IF k <= i THEN v[k] ELSE v[k + 1]]

ReorderEffect(from, to) ==
    LET n == Len(repos) IN
    IF from # to /\ from < n /\ to < n
    THEN /\ Len(repos') = n
         /\ repos'[to + 1] = repos[from + 1]
         /\ Without(repos', to) = Without(repos, from)
         /\ active_tab < n =>
               /\ active_tab' < n
               /\ repos'[active_tab' + 1] = repos[active_tab + 1]
    ELSE repos' = repos /\ active_tab' = active_tab

\* C20: reorder_repos(from, to) with from # to and both below the number of
\* repos moves the repo at from to index to, keeps the order of the others
\* and leaves active_tab at the repo that was active; otherwise repos and
\* active_tab are unchanged.
C20_Reorder ==
    [][op'.name = "reorder_repos" => ReorderEffect(op'.args[1], op'.args[2])]_vars

\* three different repos after the first was moved to the end, the active
\* tab having moved with it
C20_Witness ==
    /\ op = Call("reorder_repos", <<0, 2>>)
    /\ Len(repos) = 3
    /\ \A i, j \in 1..3 : i # j => repos[i] # repos[j]
    /\ active_tab = 2

(* the two pairings, side by side *)

\* the rows that show a Deletion on the left and an Addition on the right,
\* as <<left line, right line>>
DeletionAdditionRows(r) ==
    {<<r[i].left[1], r[i].right[1]>> :
        i \in {i \in 1..Len(r) :
                  /\ IsSome(r[i].left) /\ IsSome(r[i].right)
                  /\ r[i].left[1].origin = "Deletion"
                  /\ r[i].right[1].origin = "Addition"}}

\* C22: on the same hunk lines split_hunk_lines and compute_inline_changes
\* pair the same lines: a row has a Deletion on the left and an Addition on
\* the right exactly when compute_inline_changes diffs that deletion
\* against that addition.
C22_SamePairing ==
    pc = "split" =>
        \A f \in 1..Len(files) : \A h \in 1..Len(files[f].hunks) :
            LET lines == HunkAt(f, h).lines IN
            DeletionAdditionRows(rows[f][h])
               = {<<lines[pr[1]], lines[pr[2]]>> : pr \in DiffedPairs(lines, 1)}

\* rows of a hunk whose deletion run and addition run give two pairs
C22_Witness ==
    /\ pc = "split"
    /\ \E f \in 1..Len(files) : \E h \in 1..Len(files[f].hunks) :
          /\ Cardinality(DeletionAdditionRows(rows[f][h])) >= 2
          /\ Cardinality(DiffedPairs(HunkAt(f, h).lines, 1)) >= 2

IsLeftLine(l) == l.origin \in {"Context", "Deletion"}
IsRightLine(l) == l.origin \in {"Context", "Addition"}
HasLeft(row) == IsSome(row.left)
HasRight(row) == IsSome(row.right)

\* the present sides of the rows, top to bottom
LeftSides(r) ==
    LET present == SelectSeq(r, HasLeft) IN
    [i \in 1..Len(present) |-> present[i].left[1]]

RightSides(r) ==
    LET present == SelectSeq(r, HasRight) IN
    [i \in 1..Len(present) |-> present[i].right[1]]

\* C23: split_hunk_lines loses and duplicates no line: the present left
\* sides of the rows, top to bottom, are the input's Context and Deletion
\* lines in input order, the present right sides its Context and Addition
\* lines in input order.
C23_NoLineLost ==
    pc = "split" =>
        \A f \in 1..Len(files) : \A h \in 1..Len(files[f].hunks) :
            LET lines == HunkAt(f, h).lines
                r == rows[f][h]
            IN  /\ LeftSides(r) = SelectSeq(lines, IsLeftLine)
                /\ RightSides(r) = SelectSeq(lines, IsRightLine)

\* rows of a hunk with a Context line, a pair and a surplus addition
C23_Witness ==
    /\ pc = "split"
    /\ \E f \in 1..Len(files) : \E h \in 1..Len(files[f].hunks) :
          LET r == rows[f][h] IN
          /\ Len(RightSides(r)) > Len(LeftSides(r))
          /\ Len(LeftSides(r)) >= 2
          /\ \E i \in 1..Len(r) : r[i].left = r[i].right

(* files and hunks, stated over the input lines *)

\* the first "diff --git" line after line j; Len(input) + 1 when none
BlockEndOf(j) ==
    CHOOSE e \in (j + 1)..(Len(input) + 1) :
        /\ e = Len(input) + 1 \/ StartsWith(input[e], DiffGit)
        /\ \A i \in (j + 1)..(e - 1) : ~StartsWith(input[i], DiffGit)

StartsHunk(line) == StartsWith(line, AtAt)

\* the lines starting with "@@" of the block whose header is line j
HunkLinesOf(j) == SelectSeq(SubSeq(input, j + 1, BlockEndOf(j) - 1), StartsHunk)

\* C24: parse_unified_diff returns one FileDiff for each input line that
\* starts with 'diff --git', in input order (none for an input without such
\* a line, one for a header block without hunks), and the hunks of a file
\* are the lines starting with '@@' between its header and the next 'diff
\* --git' line, in order.
C24_FilesAndHunks ==
    pc = "parsed" =>
        /\ Len(files) = Cardinality(HeaderPositions)
        /\ \A f \in 1..Len(files) :
              LET j == NthHeader(f) IN
              /\ files[f].path = parse_diff_header(input[j])
              /\ [h \in 1..Len(files[f].hunks) |-> files[f].hunks[h].header]
                    = HunkLinesOf(j)

\* two files returned, the first from a header block without hunks, the
\* second with a hunk
C24_Witness ==
    /\ pc = "parsed"
    /\ Len(files) = 2
    /\ files[1].hunks = <<>>
    /\ Len(files[2].hunks) = 1

(* what a run of compute_inline_changes changes *)

\* a step that is a run of compute_inline_changes
InlineStep == inline_runs' = inline_runs + 1

NoSpans(line) == [line EXCEPT !.change_spans = <<>>]

\* C25: compute_inline_changes changes nothing but the change_spans of
\* paired lines: files, hunks and lines keep their number and order, every
\* line its origin, content and line numbers, every hunk its header and
\* start/count fields, every unpaired line its change_spans.
C25_Frame ==
    [][InlineStep =>
          /\ Len(files') = Len(files)
          /\ \A f \in 1..Len(files) :
                /\ [files'[f] EXCEPT !.hunks = <<>>] = [files[f] EXCEPT !.hunks = <<>>]
                /\ Len(files'[f].hunks) = Len(files[f].hunks)
                /\ \A h \in 1..Len(files[f].hunks) :
                      LET before == files[f].hunks[h]
                          after == files'[f].hunks[h]
                          paired == PairedLines(before.lines)
                      IN  /\ [after EXCEPT !.lines = <<>>]
                                = [before EXCEPT !.lines = <<>>]
                          /\ Len(after.lines) = Len(before.lines)
                          /\ \A k \in 1..Len(before.lines) :
                                /\ NoSpans(after.lines[k]) = NoSpans(before.lines[k])
                                /\ k \notin paired =>
                                      after.lines[k].change_spans
                                         = before.lines[k].change_spans]_vars

\* a run done on a hunk that has a Context line before a pair with spans
C25_Witness ==
    /\ InlineRan
    /\ \E f \in 1..Len(files) : \E h \in 1..Len(files[f].hunks) :
          LET lines == HunkAt(f, h).lines IN
          /\ Len(lines) >= 3
          /\ lines[1].origin = "Context"
          /\ lines[1].change_spans = <<>>
          /\ \E k \in PairedLines(lines) : lines[k].change_spans # <<>>

Reverse(q) == [i \in 1..Len(q) |-> q[Len(q) + 1 - i]]

C27_ScanAdvances ==
    pc = "parsed" =>
        \A f \in 1..Len(files) : \A h \in 1..Len(files[f].hunks) :
            LET lines == HunkAt(f, h).lines IN
            \A i \in 1..Len(lines) :
                /\ ScanAdvance(lines, i) > i
                /\ ScanAdvance(lines, i) <= Len(lines) + 1

\* the scan has run to its end over a hunk with a lone deletion, a Context
\* line and a lone addition
C27_Witness ==
    /\ pc = "parsed" /\ inline_runs >= 1
    /\ \E f \in 1..Len(files) : \E h \in 1..Len(files[f].hunks) :
          LET lines == HunkAt(f, h).lines IN
          /\ Len(lines) >= 3
          /\ lines[1].origin = "Deletion"
          /\ lines[2].origin = "Context"
          /\ lines[3].origin = "Addition"

(* the DiffView *)

\* C21: after any sequence of set_diffs, set_commit_data and set_error an
\* error message is present only if diffs is empty and commit_info absent.
C21_ErrorAlone ==
    pc = "diff_view" =>
        (IsSome(error_message) => diffs = <<>> /\ commit_info = None)

\* an error set on a view that had drawn a diff
C21_Witness ==
    /\ pc = "diff_view"
    /\ IsSome(error_message)
    /\ drawn \in {"Unified", "Split"}

\* the view shows a non-empty diff and no error
Showing == pc = "diff_view" /\ error_message = None /\ diffs # <<>>

\* the mode of the claim for the width
WidthMode == IF width >= 1000 THEN "Split" ELSE "Unified"

\* C30: while the view shows a diff at a fixed width, a notified view comes
\* to the mode of its width (Split from 1000 px, Unified below); once the
\* canvas has measured the width the mode is that one, the render after
\* draws in it, and the mode no longer changes while the width stays.
C30_ModeSettles ==
    /\ [](pc = "diff_view" =>
            /\ frames >= 1 => mode = WidthMode
            /\ (frames >= 2 /\ Showing /\ drawn \in {"Unified", "Split"}) =>
                  drawn = WidthMode)
    /\ [][(frames >= 1 /\ width' = width) => mode' = mode]_vars
    /\ ((Showing /\ notified) ~> (~Showing \/ mode = WidthMode))

\* a diff drawn side by side at exactly 1000 px, after a first frame drawn
\* unified
C30_Witness ==
    /\ Showing
    /\ width = 1000
    /\ frames >= 2
    /\ mode = "Split"
    /\ drawn = "Split"

(* the AppView *)

\* C28: after any sequence of AppView operations and tab bar callbacks with
\* any index, active_tab is below the number of open repos when a repo is
\* open and 0 when none is.
C28_ActiveTabInRange ==
    pc = "app_view" =>
        IF repos = <<>> THEN active_tab = 0 ELSE active_tab < Len(repos)

\* C29: after any sequence of AppView operations repo_views is as long as
\* state.repos and repo_views[i] is the view opened for the path of
\* state.repos[i].
C29_ViewsAligned ==
    pc = "app_view" =>
        /\ Len(repo_views) = Len(repos)
        /\ \A i \in 1..Len(repos) : repo_views[i] = RepoView(repos[i].path)

\* different repos after the tab bar moved the first behind the second, the
\* message of an add that failed still shown
C29_Witness ==
    /\ pc = "app_view"
    /\ op.name = "on_reorder"
    /\ op.args = <<0, 1>>
    /\ Len(repos) >= 2
    /\ \A i, j \in 1..Len(repos) : i # j => repos[i].path # repos[j].path
    /\ IsSome(app_error_message)

====
